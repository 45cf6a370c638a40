------------------------ MODULE ManagedServicesProofs ------------------------
(***************************************************************************)
(* The properties of ManagedServices for any number of models, machines,   *)
(* templates, requests in flight, plans, restarts and other events.        *)
(*                                                                         *)
(* The argument: plans, scripts sent and catalogue entries only grow       *)
(* (Grows), so what a request has once established about its own plan and  *)
(* script stays true through its awaits (CallsInv).  A document that a     *)
(* call has read and not yet written keeps every promise of the registry   *)
(* file itself (DocsInv): a save of an old core may undo, never falsify.   *)
(* Under one core what was read is what is there (OneCore).                *)
(***************************************************************************)
EXTENDS ManagedServices, FiniteSetTheorems, TLAPS

Sent == {"waiting", "load", "save"}

\* What a request knows: a plan being made has none yet, a confirmation has its
\* plan, then the plan's adapter, then a script for it, at last one that has written.
PlanCallOK(c) ==
    /\ c.kind = "plan" => c.stage = "discover" /\ plans[c.plan] = None
    /\ c.kind = "confirm" =>
        /\ plans[c.plan] # None
        /\ plans[c.plan].item = c.item /\ plans[c.plan].purpose = c.purpose
    /\ c.stage \in {"discover", "send"} => c.entry # None
    /\ c.stage \in {"send"} \cup Sent => plans[c.plan].adapter = c.adapter
    /\ c.stage \in Sent =>
        /\ c.purpose = "register"
        /\ c.request \in Requests /\ script[c.request] # None
        /\ script[c.request].record.item = c.item
        /\ script[c.request].record.adapter = c.adapter
    /\ c.stage \in {"load", "save"} => script[c.request].stage = "written"

CallOK(c) ==
    /\ c.core <= core
    /\ IF c.kind = "draft" THEN c.item \in catalog ELSE PlanCallOK(c)

CallsInv ==
    /\ \A s \in Slots : call[s] # Idle => CallOK(call[s])
    /\ \A s, d \in Slots :
        /\ s # d /\ call[s] # Idle /\ call[d] # Idle
        /\ call[s].kind = "plan" /\ call[d].kind = "plan"
        => call[s].plan # call[d].plan

\* What is recorded of a registered configuration.
EntryOK(i, e) ==
    e.status = "registered" =>
        /\ script[e.request] # None /\ script[e.request].stage = "written"
        /\ script[e.request].record.item = i
        /\ script[e.request].record.adapter = e.adapter
        /\ \E p \in Plans :
            /\ plans[p] # None /\ plans[p].purpose = "register"
            /\ plans[p].item = i /\ plans[p].adapter = e.adapter

DocOK(d) == \A i \in Items : d[i] # None => i \in catalog /\ EntryOK(i, d[i])

DocsInv ==
    /\ DocOK(registry)
    /\ \A s \in Slots : At(s, "save") =>
        /\ call[s].seen \in Documents /\ DocOK(call[s].seen)
        /\ ~IsDraft(s) => call[s].seen[call[s].item] # None

CatalogInv == IsFiniteSet(catalog) /\ Cardinality(catalog) <= MaxEntries

\* Scripts that have read a registry without their configuration.
OneRecordEach(rs) == \A r, o \in rs : r.item = o.item => r = o

RemoteInv ==
    /\ \A m \in Targets : OneRecordEach(remote[m])
    /\ \A q \in Requests : script[q] # None /\ script[q].stage = "read" =>
        /\ OneRecordEach(script[q].seen)
        /\ \A old \in script[q].seen : old.item # script[q].record.item

Inv == TypeOK /\ CallsInv /\ DocsInv /\ CatalogInv /\ RemoteInv

-----------------------------------------------------------------------------

\* A request in flight is one of addDraft or one of a plan.
LEMMA CallKinds ==
    ASSUME TypeOK, NEW s \in Slots, call[s].stage # "idle"
    PROVE  /\ call[s] # Idle
           /\ call[s].kind = "draft" => call[s] \in DraftCalls
           /\ call[s].kind # "draft" => call[s] \in PlanCalls
  BY DEF TypeOK, Calls, DraftCalls, PlanCalls, Idle

LEMMA IdleCall ==
    ASSUME TypeOK, NEW s \in Slots
    PROVE  call[s].stage = "idle" <=> call[s] = Idle
  BY DEF TypeOK, Calls, DraftCalls, PlanCalls, Idle, Stages

\* Deleting a plan changes nothing else of it, and no other plan.
LEMMA PlanClosed ==
    ASSUME TypeOK, NEW p \in Plans, plans[p] # None,
           plans' = [plans EXCEPT ![p].open = FALSE]
    PROVE  /\ plans' \in [Plans -> {None} \cup Plan]
           /\ plans'[p] # None /\ plans'[p].item = plans[p].item
           /\ plans'[p].purpose = plans[p].purpose /\ plans'[p].adapter = plans[p].adapter
           /\ \A o \in Plans : o # p => plans'[o] = plans[o]
<1> DEFINE closed == [plans[p] EXCEPT !.open = FALSE]
<1>1. plans[p] \in Plan
  BY DEF TypeOK
<1>2. /\ closed \in Plan /\ closed.item = plans[p].item
      /\ closed.purpose = plans[p].purpose /\ closed.adapter = plans[p].adapter
  BY <1>1 DEF Plan
<1>3. closed # None
  BY <1>2, ManagedNone
<1>4. plans' = [plans EXCEPT ![p] = closed]
  BY DEF TypeOK
<1> HIDE DEF closed
<1> QED
  BY <1>2, <1>3, <1>4 DEF TypeOK

\* A script keeps its machine and its record; once it has written it is done.
LEMMA ScriptMoves ==
    ASSUME TypeOK, NEW q \in Requests, ScriptStep(q)
    PROVE  /\ script[q] \in Script /\ script[q].stage \in {"started", "read"}
           /\ script' \in [Requests -> {None} \cup Script]
           /\ script'[q] # None /\ script'[q].record = script[q].record
           /\ \A o \in Requests : o # q => script'[o] = script[o]
           /\ UNCHANGED <<active, installed, events, catalog, registry, plans, call, acted, core>>
<1>1. script[q] \in Script
  BY DEF ScriptStep, ScriptReads, ScriptReplaces, ScriptFails, TypeOK
<1>2. PICK st \in {"read", "written", "refused"}, sn \in SUBSET Record :
        script' = [script EXCEPT ![q] = [script[q] EXCEPT !.stage = st, !.seen = sn]]
  <2>1. CASE ScriptReads(q)
    <3>1. remote[script[q].machine] \in SUBSET Record /\ script[q].seen \in SUBSET Record
      BY <1>1 DEF Script, TypeOK
    <3>2. [script[q] EXCEPT !.stage = "refused"]
            = [script[q] EXCEPT !.stage = "refused", !.seen = script[q].seen]
      BY <1>1 DEF Script
    <3> QED
      BY <2>1, <3>1, <3>2 DEF ScriptReads
  <2>2. CASE ScriptReplaces(q)
    BY <2>2, <1>1 DEF ScriptReplaces, TypeOK
  <2>3. CASE ScriptFails(q)
    BY <2>3, <1>1 DEF ScriptFails, TypeOK
  <2> QED
    BY <2>1, <2>2, <2>3 DEF ScriptStep
<1> DEFINE next == [script[q] EXCEPT !.stage = st, !.seen = sn]
<1>3. next \in Script /\ next.record = script[q].record
  BY <1>1 DEF Script
<1>4. next # None
  BY <1>3, ManagedNone
<1>5. script' = [script EXCEPT ![q] = next]
  BY <1>2
<1>6. /\ script[q].stage \in {"started", "read"}
      /\ UNCHANGED <<active, installed, events, catalog, registry, plans, call, acted, core>>
  BY DEF ScriptStep, ScriptReads, ScriptReplaces, ScriptFails, worldVars
<1> HIDE DEF next
<1> QED
  BY <1>1, <1>3, <1>4, <1>5, <1>6 DEF TypeOK

\* Nothing of a plan but that it is open, of a script sent but its stage and what it
\* has read, and of the catalogue and the cores is ever taken back.
GrowsStep ==
    /\ \A p \in Plans : plans[p] # None =>
        /\ plans'[p] # None /\ plans'[p].item = plans[p].item
        /\ plans'[p].purpose = plans[p].purpose /\ plans'[p].adapter = plans[p].adapter
    /\ \A q \in Requests : script[q] # None =>
        /\ script'[q] # None /\ script'[q].record = script[q].record
        /\ script[q].stage = "written" => script'[q].stage = "written"
    /\ catalog \subseteq catalog' /\ core <= core'

LEMMA Grows ==
    ASSUME TypeOK, CallsInv, [Next]_vars
    PROVE  GrowsStep
<1> USE ManagedNone DEF GrowsStep, TypeOK
<1>1. CASE UNCHANGED vars
  BY <1>1 DEF vars, worldVars
<1>2. ASSUME NEW s \in Slots, MakePlan(s) PROVE GrowsStep
  <2>1. call[s] \in PlanCalls /\ plans[call[s].plan] = None
    BY <1>2, CallKinds DEF MakePlan, At, CallsInv, CallOK, PlanCallOK
  <2> QED
    BY <1>2, <2>1 DEF MakePlan, worldVars, Found, AdaptersOn
<1>3. ASSUME NEW s \in Slots, call[s] \in PlanCalls, ClosePlan(s), plans[call[s].plan] # None,
             UNCHANGED <<script, catalog, core>>
      PROVE  GrowsStep
  <2> DEFINE o == call[s].plan
  <2>1. o \in Plans /\ plans' = [plans EXCEPT ![o].open = FALSE]
    BY <1>3 DEF ClosePlan, PlanCalls
  <2> HIDE DEF o
  <2>2. /\ plans'[o] # None /\ plans'[o].item = plans[o].item
        /\ plans'[o].purpose = plans[o].purpose /\ plans'[o].adapter = plans[o].adapter
        /\ \A p \in Plans : p # o => plans'[p] = plans[p]
    BY <1>3, <2>1, PlanClosed DEF o
  <2> QED
    BY <1>3, <2>2
<1>4. ASSUME NEW s \in Slots, Act(s) \/ LoadSettled(s) \/ SaveRegistered(s) PROVE GrowsStep
  <2>1. CASE UNCHANGED plans
    BY <1>4, <2>1 DEF Act, LoadSettled, SaveRegistered
  <2>2. CASE ~UNCHANGED plans
    <3>1. ClosePlan(s) /\ UNCHANGED <<script, catalog, core>> /\ call[s].stage # "idle"
      BY <1>4, <2>2 DEF Act, LoadSettled, SaveRegistered, At, HasTurn
    <3>2. call[s] \in PlanCalls
      <4>1. call[s].stage = "send" \/ call[s].kind # "draft"
        BY <1>4, <2>2 DEF Act, LoadSettled, SaveRegistered, At, IsDraft
      <4> QED
        BY <4>1, <3>1, CallKinds DEF DraftCalls
    <3>3. plans[call[s].plan] # None
      <4>1. call[s].stage \in {"send", "load", "save"}
        BY <1>4 DEF Act, LoadSettled, SaveRegistered, At, HasTurn
      <4>2. call[s] # Idle /\ CallOK(call[s])
        BY <3>1, CallKinds DEF CallsInv
      <4> QED
        BY <4>1, <4>2, <3>2 DEF CallOK, PlanCallOK, PlanCalls
    <3> QED
      BY <1>3, <3>1, <3>2, <3>3
  <2> QED
    BY <2>1, <2>2
<1>5. ASSUME NEW s \in Slots, NEW q \in Requests, SendRegistration(s, q) PROVE GrowsStep
  BY <1>5 DEF SendRegistration
<1>6. ASSUME NEW q \in Requests, ScriptStep(q) PROVE GrowsStep
  <2>1. /\ script[q].stage \in {"started", "read"}
        /\ script'[q] # None /\ script'[q].record = script[q].record
        /\ \A o \in Requests : o # q => script'[o] = script[o]
        /\ UNCHANGED <<plans, catalog, core>>
    BY <1>6, ScriptMoves
  <2> QED
    BY <2>1
<1>7. ASSUME NEW p \in Plans, Expire(p) PROVE GrowsStep
  <2>1. /\ plans[p] # None /\ UNCHANGED <<script, catalog, core>>
        /\ plans' = [plans EXCEPT ![p].open = FALSE]
    BY <1>7 DEF Expire
  <2>2. /\ plans'[p] # None /\ plans'[p].item = plans[p].item
        /\ plans'[p].purpose = plans[p].purpose /\ plans'[p].adapter = plans[p].adapter
        /\ \A o \in Plans : o # p => plans'[o] = plans[o]
    BY <2>1, PlanClosed
  <2> QED
    BY <2>1, <2>2
<1>8. ASSUME NEW i \in Items, AddModel(i) PROVE GrowsStep
  BY <1>8 DEF AddModel
<1>9. ASSUME Restart PROVE GrowsStep
  BY <1>9 DEF Restart, Event
<1>10. ASSUME UNCHANGED <<plans, script, catalog, core>> PROVE GrowsStep
  BY <1>10
<1> QED
  <2>1. ASSUME NEW s \in Slots, CallStep(s) PROVE GrowsStep
    BY <2>1, <1>2, <1>4, <1>5, <1>10 DEF CallStep, CheckPlan, Refuse, Registers, Disconnect,
       Load, SaveDraft, worldVars
  <2>2. ASSUME NEW s \in Slots, NEW i \in Items, NEW t \in Templates, RequestDraft(s, i, t)
        PROVE GrowsStep
    BY <2>2, <1>10 DEF RequestDraft
  <2>3. ASSUME NEW s \in Slots, NEW p \in Plans, NEW i \in Items, NEW u \in Purposes, RequestPlan(s, p, i, u)
        PROVE GrowsStep
    BY <2>3, <1>10 DEF RequestPlan
  <2>4. ASSUME NEW s \in Slots, NEW p \in Plans, RequestConfirm(s, p) PROVE GrowsStep
    BY <2>4, <1>10 DEF RequestConfirm
  <2>5. ASSUME NEW m \in Targets, Switch(m) PROVE GrowsStep
    BY <2>5, <1>10 DEF Switch
  <2>6. ASSUME NEW m \in Targets, NEW t \in Templates, NEW d \in Digests, Deploy(m, t, d) PROVE GrowsStep
    BY <2>6, <1>10 DEF Deploy
  <2> QED
    BY <1>1, <1>6, <1>7, <1>8, <1>9, <2>1, <2>2, <2>3, <2>4, <2>5, <2>6 DEF Next

-----------------------------------------------------------------------------
(* Types. *)

\* A confirmation that closes its plan has one.
LEMMA OwnPlan ==
    ASSUME TypeOK, CallsInv, NEW s \in Slots, call[s] \in PlanCalls,
           call[s].stage \in {"send"} \cup Sent
    PROVE  call[s].plan \in Plans /\ plans[call[s].plan] # None /\ call[s].kind = "confirm"
<1>1. CallOK(call[s]) /\ call[s].kind # "draft"
  BY CallKinds DEF CallsInv, PlanCalls, Sent
<1> QED
  BY <1>1 DEF CallOK, PlanCallOK, PlanCalls, Sent

\* What a slot's own step does to its request keeps it a request.
LEMMA CallTyped ==
    ASSUME TypeOK, CallsInv, NEW s \in Slots, NEW c \in Calls, Proceed(s, c)
    PROVE  call' \in [Slots -> Calls]
  BY DEF TypeOK, Proceed

\* What is sent is a script.
LEMMA ScriptSent ==
    ASSUME TypeOK, CallsInv, NEW s \in Slots, NEW q \in Requests, SendRegistration(s, q)
    PROVE  /\ call[s] \in PlanCalls
           /\ script' \in [Requests -> {None} \cup Script] /\ script'[q] # None
<1>1. call[s] \in PlanCalls /\ CallOK(call[s]) /\ call[s].kind = "confirm"
  <2>1. call[s] \in PlanCalls
    BY CallKinds DEF SendRegistration, At, DraftCalls
  <2> QED
    BY <2>1, OwnPlan, CallKinds DEF SendRegistration, At, CallsInv
<1>2. call[s].entry \in Configurations /\ call[s].adapter \in Adapters
  <2>1. call[s].entry # None /\ plans[call[s].plan] # None
        /\ plans[call[s].plan].adapter = call[s].adapter
    BY <1>1 DEF SendRegistration, At, CallOK, PlanCallOK
  <2> QED
    BY <1>1, <2>1 DEF PlanCalls, Plan, TypeOK, Entries
<1>3. call[s].entry.template \in Templates
  BY <1>2 DEF Configurations
<1> DEFINE sc == [stage |-> "started", machine |-> active, seen |-> {},
                  record |-> [request |-> q, item |-> call[s].item,
                              template |-> call[s].entry.template, adapter |-> call[s].adapter]]
<1>4. sc \in Script
  BY <1>1, <1>2, <1>3 DEF Script, Record, PlanCalls, TypeOK
<1>5. script' = [script EXCEPT ![q] = sc]
  BY DEF SendRegistration
<1> HIDE DEF sc
<1> QED
  BY <1>1, <1>4, <1>5, ManagedNone DEF TypeOK

LEMMA TypeStep ==
    ASSUME TypeOK, CallsInv, DocsInv, [Next]_vars
    PROVE  TypeOK'
<1>0. Idle \in Calls
  BY DEF Calls
<1>1. CASE UNCHANGED vars
  BY <1>1 DEF vars, worldVars, TypeOK
<1>2. ASSUME NEW i \in Items, AddModel(i) PROVE TypeOK'
  BY <1>2 DEF AddModel, worldVars, TypeOK
<1>3. ASSUME NEW s \in Slots, NEW i \in Items, NEW t \in Templates, RequestDraft(s, i, t)
      PROVE  TypeOK'
  <2>1. [stage |-> "load", kind |-> "draft", core |-> core, item |-> i,
         template |-> t, seen |-> None] \in Calls
    BY DEF TypeOK, Calls, DraftCalls
  <2> QED
    BY <1>3, <2>1, CallTyped DEF RequestDraft, worldVars, TypeOK
<1>4. ASSUME NEW s \in Slots, NEW k \in {"plan", "confirm"}, NEW p \in Plans, NEW i \in Items,
             NEW u \in Purposes, Precheck(s, k, p, i, u),
             UNCHANGED <<worldVars, catalog, registry, remote, script, plans, acted, core>>
      PROVE  TypeOK'
  <2>1. [stage |-> "discover", kind |-> k, core |-> core, item |-> i, plan |-> p,
         purpose |-> u, entry |-> registry[i], adapter |-> None,
         request |-> None, seen |-> None] \in Calls
    BY DEF TypeOK, Calls, PlanCalls, Stages, Documents
  <2> QED
    BY <1>4, <2>1, CallTyped DEF Precheck, worldVars, TypeOK
<1>5. ASSUME NEW s \in Slots, NEW p \in Plans, RequestConfirm(s, p) PROVE TypeOK'
  <2>1. plans[p] \in Plan
    BY <1>5 DEF RequestConfirm, TypeOK
  <2> QED
    BY <1>4, <1>5, <2>1 DEF RequestConfirm, Plan
<1>6. ASSUME NEW p \in Plans, Expire(p) PROVE TypeOK'
  BY <1>6, PlanClosed DEF Expire, worldVars, TypeOK
<1>7. ASSUME NEW s \in Slots, MakePlan(s) PROVE TypeOK'
  <2>1. call[s] \in PlanCalls
    BY <1>7, CallKinds DEF MakePlan, At
  <2>2. PICK a \in Found(call[s].entry) : plans' = [plans EXCEPT ![call[s].plan] =
            [open |-> TRUE, purpose |-> call[s].purpose, item |-> call[s].item,
             adapter |-> a, core |-> call[s].core]]
    BY <1>7 DEF MakePlan
  <2>3. a \in Adapters
    BY DEF Found, AdaptersOn, Adapters, TypeOK
  <2>4. [open |-> TRUE, purpose |-> call[s].purpose, item |-> call[s].item,
         adapter |-> a, core |-> call[s].core] \in Plan
    BY <2>1, <2>3 DEF PlanCalls, Plan
  <2> QED
    BY <1>0, <1>7, <2>1, <2>2, <2>4, CallTyped DEF MakePlan, Answer, worldVars, TypeOK
<1>8. ASSUME NEW s \in Slots, CheckPlan(s) PROVE TypeOK'
  <2>1. call[s] \in PlanCalls
    BY <1>8, CallKinds DEF CheckPlan, At
  <2>2. PICK a \in Bound(s) : Proceed(s, [call[s] EXCEPT !.stage = "send", !.adapter = a])
    BY <1>8 DEF CheckPlan
  <2>3. a \in Adapters
    BY DEF Bound, Found, AdaptersOn, Adapters, TypeOK
  <2>4. [call[s] EXCEPT !.stage = "send", !.adapter = a] \in Calls
    BY <2>1, <2>3 DEF PlanCalls, Calls, Stages
  <2> QED
    BY <1>8, <2>2, <2>4, CallTyped DEF CheckPlan, worldVars, TypeOK
<1>9. ASSUME NEW s \in Slots, Refuse(s) \/ Disconnect(s) PROVE TypeOK'
  BY <1>0, <1>9, CallTyped DEF Refuse, Disconnect, Answer, worldVars, TypeOK
<1>10. ASSUME NEW s \in Slots, Act(s) PROVE TypeOK'
  <2>1. call[s] \in PlanCalls
    BY <1>10, CallKinds DEF Act, At, DraftCalls
  <2>2. /\ call[s].plan \in Plans /\ plans[call[s].plan] # None
        /\ [item |-> call[s].item, adapter |-> call[s].adapter] \in [item: Items, adapter: Adapters]
    <3>1. call[s].plan \in Plans /\ plans[call[s].plan] # None /\ call[s].kind = "confirm"
      BY <1>10, <2>1, OwnPlan DEF Act, At
    <3>2. plans[call[s].plan].adapter = call[s].adapter
      BY <1>10, <3>1, CallKinds DEF Act, At, CallsInv, CallOK, PlanCallOK
    <3> QED
      BY <2>1, <3>1, <3>2 DEF PlanCalls, Plan, TypeOK
  <2>3. plans' \in [Plans -> {None} \cup Plan]
    BY <1>10, <2>2, PlanClosed DEF Act, ClosePlan, TypeOK
  <2> QED
    BY <1>0, <1>10, <2>2, <2>3, CallTyped DEF Act, Answer, worldVars, TypeOK
<1>11. ASSUME NEW s \in Slots, NEW q \in Requests, SendRegistration(s, q) PROVE TypeOK'
  <2>1. call[s] \in PlanCalls /\ script' \in [Requests -> {None} \cup Script]
    BY <1>11, ScriptSent
  <2>2. [call[s] EXCEPT !.stage = "waiting", !.entry = None, !.request = q] \in Calls
    BY <2>1 DEF PlanCalls, Calls, Stages, Entries
  <2> QED
    BY <1>11, <2>1, <2>2, CallTyped DEF SendRegistration, worldVars, TypeOK
<1>12. ASSUME NEW q \in Requests, ScriptStep(q) PROVE TypeOK'
  <2>1. remote' \in [Targets -> SUBSET Record]
    <3>1. CASE ScriptReplaces(q)
      <4>1. script[q] \in Script
        BY <1>12, ScriptMoves
      <4>2. script[q].seen \cup {script[q].record} \in SUBSET Record
        BY <4>1 DEF Script
      <4> QED
        BY <3>1, <4>2 DEF ScriptReplaces, TypeOK
    <3>2. CASE ~ScriptReplaces(q)
      BY <1>12, <3>2 DEF ScriptStep, ScriptReads, ScriptFails, TypeOK
    <3> QED
      BY <3>1, <3>2
  <2>2. /\ script' \in [Requests -> {None} \cup Script]
        /\ UNCHANGED <<active, installed, events, catalog, registry, plans, call, acted, core>>
    BY <1>12, ScriptMoves
  <2> QED
    BY <2>1, <2>2 DEF TypeOK
<1>13. ASSUME NEW s \in Slots, Registers(s) PROVE TypeOK'
  <2>1. call[s] \in PlanCalls
    BY <1>13, CallKinds DEF Registers, At, DraftCalls
  <2>2. [call[s] EXCEPT !.stage = "load"] \in Calls
    BY <2>1 DEF PlanCalls, Calls, Stages
  <2> QED
    BY <1>13, <2>2, CallTyped DEF Registers, worldVars, TypeOK
<1>14. ASSUME NEW s \in Slots, LoadSettled(s) PROVE TypeOK'
  <2>1. plans' \in [Plans -> {None} \cup Plan]
    <3>1. CASE IsDraft(s)
      BY <1>14, <3>1 DEF LoadSettled, TypeOK
    <3>2. CASE ~IsDraft(s)
      <4>1. call[s] \in PlanCalls
        BY <1>14, <3>2, CallKinds DEF LoadSettled, HasTurn, At, IsDraft
      <4>2. call[s].plan \in Plans /\ plans[call[s].plan] # None
        BY <1>14, <4>1, OwnPlan DEF LoadSettled, HasTurn, At, Sent
      <4> QED
        BY <1>14, <3>2, <4>2, PlanClosed DEF LoadSettled, ClosePlan
    <3> QED
      BY <3>1, <3>2
  <2> QED
    BY <1>0, <1>14, <2>1, CallTyped DEF LoadSettled, Answer, worldVars, TypeOK
<1>15. ASSUME NEW s \in Slots, Load(s) PROVE TypeOK'
  <2>1. [call[s] EXCEPT !.stage = "save", !.seen = registry] \in Calls
    <3>1. registry \in Documents
      BY DEF TypeOK
    <3>2. call[s] \in DraftCalls \/ call[s] \in PlanCalls
      BY <1>15, CallKinds DEF Load, HasTurn, At
    <3> QED
      BY <3>1, <3>2 DEF DraftCalls, PlanCalls, Calls, Stages
  <2> QED
    BY <1>15, <2>1, CallTyped DEF Load, worldVars, TypeOK
<1>16. ASSUME NEW s \in Slots, SaveDraft(s) PROVE TypeOK'
  <2>1. call[s] \in DraftCalls /\ call[s].seen \in Documents
    BY <1>16, CallKinds DEF SaveDraft, At, IsDraft, DocsInv
  <2>2. Draft(call[s].template) \in Entries
    BY <2>1 DEF DraftCalls, Draft, Entries, Configurations
  <2>3. registry' \in Documents
    BY <1>16, <2>1, <2>2 DEF SaveDraft, DraftCalls, Documents
  <2> QED
    BY <1>0, <1>16, <2>3, CallTyped DEF SaveDraft, Answer, worldVars, TypeOK
<1>17. ASSUME NEW s \in Slots, SaveRegistered(s) PROVE TypeOK'
  <2>1. /\ call[s] \in PlanCalls /\ call[s].seen \in Documents
        /\ call[s].seen[call[s].item] # None
    BY <1>17, CallKinds DEF SaveRegistered, At, IsDraft, DocsInv
  <2>2. /\ call[s].plan \in Plans /\ plans[call[s].plan] # None /\ call[s].request \in Requests
        /\ plans[call[s].plan].adapter = call[s].adapter
    BY <1>17, <2>1, OwnPlan, CallKinds
       DEF SaveRegistered, At, IsDraft, Sent, CallsInv, CallOK, PlanCallOK
  <2>3. call[s].adapter \in Adapters
    BY <2>2 DEF TypeOK, Plan
  <2>4. call[s].seen[call[s].item].template \in Templates
    BY <2>1 DEF PlanCalls, Documents, Entries, Configurations
  <2>5. [status |-> "registered", template |-> call[s].seen[call[s].item].template,
         adapter |-> call[s].adapter, request |-> call[s].request] \in Entries
    BY <2>2, <2>3, <2>4 DEF Entries, Configurations
  <2>6. registry' \in Documents
    BY <1>17, <2>1, <2>5 DEF SaveRegistered, PlanCalls, Documents
  <2>7. plans' \in [Plans -> {None} \cup Plan]
    BY <1>17, <2>2, PlanClosed DEF SaveRegistered, ClosePlan
  <2> QED
    BY <1>0, <1>17, <2>6, <2>7, CallTyped DEF SaveRegistered, Answer, worldVars, TypeOK
<1>18. ASSUME NEW m \in Targets, Switch(m) PROVE TypeOK'
  BY <1>18 DEF Switch, Event, TypeOK
<1>19. ASSUME NEW m \in Targets, NEW t \in Templates, NEW d \in Digests, Deploy(m, t, d)
       PROVE  TypeOK'
  BY <1>19 DEF Deploy, Event, TypeOK
<1>20. ASSUME Restart PROVE TypeOK'
  <2>1. call' \in [Slots -> Calls]
    BY <1>0, <1>20 DEF Restart, TypeOK
  <2> QED
    BY <1>20, <2>1 DEF Restart, Event, TypeOK
<1>21. ASSUME NEW s \in Slots, CallStep(s) PROVE TypeOK'
  BY <1>21, <1>7, <1>8, <1>9, <1>10, <1>11, <1>13, <1>14, <1>15, <1>16, <1>17 DEF CallStep
<1>22. ASSUME NEW s \in Slots, NEW p \in Plans, NEW i \in Items, NEW u \in Purposes, RequestPlan(s, p, i, u)
       PROVE  TypeOK'
  BY <1>22, <1>4 DEF RequestPlan
<1> QED
  BY <1>1, <1>2, <1>3, <1>5, <1>6, <1>12, <1>18, <1>19, <1>20, <1>21, <1>22 DEF Next

-----------------------------------------------------------------------------
(* What requests know. *)

\* A plan identifier that a request has taken stays free until that request uses it.
LEMMA PlanStaysFree ==
    ASSUME TypeOK, CallsInv, Next, NEW s \in Slots, call[s] # Idle, call[s].kind = "plan",
           call'[s] = call[s]
    PROVE  plans'[call[s].plan] = None
<1> DEFINE p == call[s].plan
<1>1. call[s] \in PlanCalls /\ plans[p] = None /\ p \in Plans
  <2>1. call[s] \in PlanCalls
    BY CallKinds, IdleCall
  <2>2. CallOK(call[s])
    BY DEF CallsInv
  <2> QED
    BY <2>1, <2>2 DEF CallOK, PlanCallOK, PlanCalls
<1>2. CASE UNCHANGED plans
  BY <1>1, <1>2
<1>3. ASSUME NEW o \in Plans, plans[o] # None, plans' = [plans EXCEPT ![o].open = FALSE]
      PROVE  plans'[p] = None
  BY <1>1, <1>3, PlanClosed
<1>4. ASSUME NEW d \in Slots, MakePlan(d) PROVE plans'[p] = None
  <2>1. call'[d] = Idle /\ call[d] # Idle /\ call[d].kind = "plan" /\ call[d] \in PlanCalls
    BY <1>4, CallKinds DEF MakePlan, Answer, Proceed, At, TypeOK
  <2>2. call[d].plan # p
    BY <2>1 DEF CallsInv
  <2> QED
    BY <1>1, <1>4, <2>1, <2>2 DEF MakePlan, TypeOK, PlanCalls
<1>5. ASSUME NEW d \in Slots, call[d] \in PlanCalls, call[d].stage \in {"send"} \cup Sent,
             ClosePlan(d)
      PROVE  plans'[p] = None
  BY <1>3, <1>5, OwnPlan DEF ClosePlan
<1>6. ASSUME NEW d \in Slots, CallStep(d) PROVE plans'[p] = None
  <2>1. CASE UNCHANGED plans
    BY <1>2, <2>1
  <2>2. CASE ~UNCHANGED plans /\ ~MakePlan(d)
    <3>1. Act(d) \/ LoadSettled(d) \/ SaveRegistered(d)
      BY <1>6, <2>2 DEF CallStep, CheckPlan, Refuse, SendRegistration, Registers, Disconnect, Load, SaveDraft
    <3>2. ClosePlan(d) /\ call[d].stage \in {"send"} \cup Sent
      BY <2>2, <3>1 DEF Act, LoadSettled, SaveRegistered, At, HasTurn, Sent
    <3>3. call[d] \in PlanCalls
      BY <2>2, <3>1, <3>2, CallKinds DEF Act, LoadSettled, SaveRegistered, At, IsDraft, DraftCalls, Sent
    <3> QED
      BY <1>5, <3>2, <3>3
  <2> QED
    BY <1>4, <2>1, <2>2
<1>7. ASSUME NEW o \in Plans, Expire(o) PROVE plans'[p] = None
  BY <1>3, <1>7 DEF Expire
<1>8. UNCHANGED plans \/ (\E d \in Slots : CallStep(d)) \/ (\E o \in Plans : Expire(o))
  <2>1. ASSUME NEW q \in Requests, ScriptStep(q) PROVE UNCHANGED plans
    BY <2>1, ScriptMoves
  <2> QED
    BY <2>1 DEF Next, RequestDraft, RequestPlan, RequestConfirm, AddModel, Switch, Deploy, Restart
<1> QED
  BY <1>2, <1>6, <1>7, <1>8

LEMMA TypeStepCore ==
    ASSUME TypeOK, [Next]_vars
    PROVE  core' \in Nat
<1>1. ASSUME NEW q \in Requests, ScriptStep(q) PROVE UNCHANGED core
  BY <1>1 DEF ScriptStep, ScriptReads, ScriptReplaces, ScriptFails
<1>2. UNCHANGED core \/ Restart
  BY <1>1 DEF Next, vars, CallStep, MakePlan, CheckPlan, Refuse, Act, SendRegistration, Registers,
     Disconnect, LoadSettled, Load, SaveDraft, SaveRegistered, RequestDraft, RequestPlan,
     RequestConfirm, AddModel, Expire, Switch, Deploy
<1> QED
  BY <1>2 DEF Restart, TypeOK

\* What a request knows stays true while others move.
LEMMA CallOKKept ==
    ASSUME TypeOK, CallsInv, [Next]_vars, NEW s \in Slots, call[s] # Idle, call'[s] = call[s]
    PROVE  CallOK(call[s])'
<1>1. GrowsStep
  BY Grows
<1>2. CallOK(call[s])
  BY DEF CallsInv
<1>3. CASE call[s].kind = "draft"
  <2>1. call[s].core \in Nat /\ core \in Nat /\ core' \in Nat
    BY <1>3, CallKinds, IdleCall, TypeStepCore DEF DraftCalls, TypeOK
  <2> QED
    BY <1>1, <1>2, <1>3, <2>1 DEF CallOK, GrowsStep
<1>4. CASE call[s].kind # "draft"
  <2>1. call[s] \in PlanCalls
    BY <1>4, CallKinds, IdleCall
  <2>2. call[s].core <= core'
    BY <1>1, <1>2, <2>1, TypeStepCore DEF CallOK, GrowsStep, PlanCalls, TypeOK
  <2>3. call[s].kind = "plan" => plans'[call[s].plan] = None
    BY <1>2, <1>4, PlanStaysFree DEF CallOK, PlanCallOK, vars
  <2>4. /\ call[s].plan \in Plans
        /\ call[s].stage \in {"send"} \cup Sent => call[s].kind = "confirm"
        /\ call[s].kind \in {"plan", "confirm"}
    BY <1>2, <1>4, <2>1 DEF CallOK, PlanCallOK, PlanCalls, Sent
  <2>5. PlanCallOK(call[s])
    BY <1>2, <1>4 DEF CallOK
  <2>6. PlanCallOK(call[s])'
    BY <1>1, <2>3, <2>4, <2>5 DEF PlanCallOK, GrowsStep, Sent
  <2> QED
    BY <1>4, <2>2, <2>6 DEF CallOK
<1> QED
  BY <1>3, <1>4

\* One slot moves: what it then knows is all there is to show.
LEMMA OneCallMoves ==
    ASSUME TypeOK, CallsInv, [Next]_vars, NEW s \in Slots, NEW c \in Calls, Proceed(s, c),
           c # Idle => CallOK(call[s])',
           c # Idle /\ c.kind = "plan" =>
               \A d \in Slots : ~At(d, "idle") /\ call[d].kind = "plan" => call[d].plan # c.plan
    PROVE  CallsInv'
<1>1. call'[s] = c /\ \A d \in Slots : d # s => call'[d] = call[d]
  BY DEF Proceed, TypeOK
<1>2. \A d \in Slots : call'[d] # Idle => CallOK(call[d])'
  <2>1. ASSUME NEW d \in Slots, d # s, call'[d] # Idle PROVE CallOK(call[d])'
    BY <1>1, <2>1, CallOKKept
  <2> QED
    BY <1>1, <2>1
<1>3. ASSUME NEW d \in Slots, NEW e \in Slots, d # e, call'[d] # Idle, call'[e] # Idle,
             call'[d].kind = "plan", call'[e].kind = "plan"
      PROVE  call'[d].plan # call'[e].plan
  BY <1>1, <1>3, IdleCall DEF CallsInv, At
<1> QED
  BY <1>2, <1>3 DEF CallsInv

\* No slot moves.
LEMMA NoCallMoves ==
    ASSUME TypeOK, CallsInv, [Next]_vars, UNCHANGED call
    PROVE  CallsInv'
<1>1. \A d \in Slots : call'[d] # Idle => CallOK(call[d])'
  BY CallOKKept
<1> QED
  BY <1>1 DEF CallsInv

LEMMA CallsStep ==
    ASSUME TypeOK, CallsInv, [Next]_vars
    PROVE  CallsInv'
<1>0. Idle \in Calls /\ GrowsStep
  BY Grows DEF Calls
<1>1. ASSUME NEW s \in Slots, Answer(s) PROVE CallsInv'
  BY <1>0, <1>1, OneCallMoves DEF Answer
<1>2. ASSUME NEW s \in Slots, NEW i \in Items, NEW t \in Templates, RequestDraft(s, i, t)
      PROVE  CallsInv'
  <2> DEFINE c == [stage |-> "load", kind |-> "draft", core |-> core, item |-> i,
                   template |-> t, seen |-> None]
  <2>1. c \in Calls /\ Proceed(s, c) /\ call'[s] = c /\ core \in Nat
    BY <1>2 DEF RequestDraft, TypeOK, Calls, DraftCalls, Proceed
  <2>2. CallOK(call[s])'
    BY <1>2, <2>1 DEF RequestDraft, CallOK
  <2> QED
    BY <2>1, <2>2, OneCallMoves
<1>3. ASSUME NEW s \in Slots, NEW p \in Plans, NEW i \in Items, NEW u \in Purposes, RequestPlan(s, p, i, u)
      PROVE  CallsInv'
  <2> DEFINE c == [stage |-> "discover", kind |-> "plan", core |-> core, item |-> i, plan |-> p,
                   purpose |-> u, entry |-> registry[i], adapter |-> None,
                   request |-> None, seen |-> None]
  <2>1. c \in Calls /\ Proceed(s, c) /\ call'[s] = c /\ core \in Nat
    BY <1>3 DEF RequestPlan, Precheck, TypeOK, Calls, PlanCalls, Stages, Documents, Proceed
  <2>2. CallOK(call[s])'
    BY <1>3, <2>1 DEF RequestPlan, Precheck, CallOK, PlanCallOK, Sent
  <2> QED
    BY <1>3, <2>1, <2>2, OneCallMoves DEF RequestPlan
<1>4. ASSUME NEW s \in Slots, NEW p \in Plans, RequestConfirm(s, p) PROVE CallsInv'
  <2> DEFINE c == [stage |-> "discover", kind |-> "confirm", core |-> core, item |-> plans[p].item,
                   plan |-> p, purpose |-> plans[p].purpose, entry |-> registry[plans[p].item],
                   adapter |-> None, request |-> None, seen |-> None]
  <2>1. plans[p] \in Plan
    BY <1>4 DEF RequestConfirm, TypeOK
  <2>2. c \in Calls /\ Proceed(s, c) /\ call'[s] = c /\ core \in Nat
    BY <1>4, <2>1 DEF RequestConfirm, Precheck, TypeOK, Calls, PlanCalls, Plan, Stages, Documents, Proceed
  <2>3. CallOK(call[s])'
    BY <1>4, <2>2 DEF RequestConfirm, Precheck, CallOK, PlanCallOK, Sent
  <2> QED
    BY <2>2, <2>3, OneCallMoves
<1>5. ASSUME NEW s \in Slots, CheckPlan(s) PROVE CallsInv'
  <2>1. call[s] \in PlanCalls /\ CallOK(call[s]) /\ call[s].kind = "confirm"
    BY <1>5, CallKinds DEF CheckPlan, At, CallsInv
  <2>2. PICK a \in Bound(s) : Proceed(s, [call[s] EXCEPT !.stage = "send", !.adapter = a])
    BY <1>5 DEF CheckPlan
  <2> DEFINE c == [call[s] EXCEPT !.stage = "send", !.adapter = a]
  <2>3. a \in Adapters /\ a = plans[call[s].plan].adapter
    BY DEF Bound, Found, AdaptersOn, Adapters, TypeOK
  <2>4. /\ c \in Calls /\ call'[s] = c
        /\ c.kind = "confirm" /\ c.stage = "send" /\ c.adapter = a /\ c.plan = call[s].plan
        /\ c.core = call[s].core /\ c.item = call[s].item /\ c.purpose = call[s].purpose
        /\ c.entry = call[s].entry
    BY <2>1, <2>2, <2>3 DEF PlanCalls, Calls, Stages, TypeOK, Proceed
  <2>5. UNCHANGED <<plans, script, core>> /\ call[s].stage = "discover"
    BY <1>5 DEF CheckPlan, At
  <2> HIDE DEF c
  <2>6. CallOK(call[s])'
    BY <2>1, <2>3, <2>4, <2>5 DEF CallOK, PlanCallOK, Sent
  <2> QED
    BY <2>2, <2>4, <2>6, OneCallMoves DEF c
<1>6. ASSUME NEW s \in Slots, NEW q \in Requests, SendRegistration(s, q) PROVE CallsInv'
  <2> DEFINE c == [call[s] EXCEPT !.stage = "waiting", !.entry = None, !.request = q]
  <2>1. call[s] \in PlanCalls /\ CallOK(call[s]) /\ call[s].kind = "confirm"
    <3>1. call[s] \in PlanCalls
      BY <1>6, CallKinds DEF SendRegistration, At, DraftCalls
    <3> QED
      BY <1>6, <3>1, OwnPlan, CallKinds DEF SendRegistration, At, CallsInv
  <2>2. /\ c \in Calls /\ Proceed(s, c) /\ call'[s] = c
        /\ c.kind = "confirm" /\ c.stage = "waiting" /\ c.adapter = call[s].adapter
        /\ c.plan = call[s].plan /\ c.core = call[s].core /\ c.item = call[s].item
        /\ c.purpose = call[s].purpose /\ c.request = q
    BY <1>6, <2>1 DEF SendRegistration, PlanCalls, Calls, Stages, Entries, TypeOK, Proceed
  <2>3. script'[q].record.item = call[s].item /\ script'[q].record.adapter = call[s].adapter
    BY <1>6 DEF SendRegistration, TypeOK
  <2>4. /\ script'[q] # None /\ UNCHANGED <<plans, core>>
        /\ call[s].stage = "send" /\ call[s].purpose = "register"
    BY <1>6, <2>1, ScriptSent DEF SendRegistration, At
  <2> HIDE DEF c
  <2>5. CallOK(call[s])'
    BY <2>1, <2>2, <2>3, <2>4 DEF CallOK, PlanCallOK, Sent
  <2> QED
    BY <2>2, <2>5, OneCallMoves
<1>7. ASSUME NEW s \in Slots, Registers(s) PROVE CallsInv'
  <2> DEFINE c == [call[s] EXCEPT !.stage = "load"]
  <2>1. call[s] \in PlanCalls /\ CallOK(call[s]) /\ call[s].kind = "confirm"
    <3>1. call[s] \in PlanCalls
      BY <1>7, CallKinds DEF Registers, At, DraftCalls
    <3> QED
      BY <1>7, <3>1, OwnPlan, CallKinds DEF Registers, At, CallsInv, Sent
  <2>2. /\ c \in Calls /\ Proceed(s, c) /\ call'[s] = c
        /\ c.kind = "confirm" /\ c.stage = "load" /\ c.adapter = call[s].adapter
        /\ c.plan = call[s].plan /\ c.core = call[s].core /\ c.item = call[s].item
        /\ c.purpose = call[s].purpose /\ c.request = call[s].request
    BY <1>7, <2>1 DEF Registers, PlanCalls, Calls, Stages, TypeOK, Proceed
  <2>3. /\ UNCHANGED <<plans, script, core>>
        /\ call[s].stage = "waiting" /\ script[call[s].request].stage = "written"
    BY <1>7 DEF Registers, At, Succeeded
  <2> HIDE DEF c
  <2>4. CallOK(call[s])'
    BY <2>1, <2>2, <2>3 DEF CallOK, PlanCallOK, Sent
  <2> QED
    BY <2>2, <2>4, OneCallMoves
<1>8. ASSUME NEW s \in Slots, Load(s) PROVE CallsInv'
  <2> DEFINE c == [call[s] EXCEPT !.stage = "save", !.seen = registry]
  <2>1. /\ call[s] \in DraftCalls \/ call[s] \in PlanCalls
        /\ CallOK(call[s]) /\ call[s].stage = "load" /\ registry \in Documents
        /\ Proceed(s, c) /\ UNCHANGED <<plans, script, catalog, core>>
    BY <1>8, CallKinds DEF Load, HasTurn, At, CallsInv, TypeOK
  <2>2. c \in Calls /\ call'[s] = c /\ c.stage = "save" /\ c.kind = call[s].kind
        /\ c.core = call[s].core /\ c.item = call[s].item
    BY <2>1 DEF DraftCalls, PlanCalls, Calls, Stages, TypeOK, Proceed
  <2>3. call[s].kind # "draft" =>
          /\ c.adapter = call[s].adapter /\ c.plan = call[s].plan
          /\ c.purpose = call[s].purpose /\ c.request = call[s].request
          /\ call[s].kind = "confirm"
    BY <2>1 DEF DraftCalls, PlanCalls, CallOK, PlanCallOK
  <2> HIDE DEF c
  <2>4. CallOK(call[s])'
    BY <2>1, <2>2, <2>3 DEF CallOK, PlanCallOK, Sent
  <2>5. c.kind # "plan"
    BY <2>1, <2>2, <2>3 DEF DraftCalls
  <2> QED
    BY <2>1, <2>2, <2>4, <2>5, OneCallMoves
<1>9. ASSUME call' = [s \in Slots |-> Idle] PROVE CallsInv'
  BY <1>9 DEF CallsInv
<1>10. ASSUME NEW s \in Slots, CallStep(s) PROVE CallsInv'
  BY <1>10, <1>1, <1>5, <1>6, <1>7, <1>8
     DEF CallStep, MakePlan, Refuse, Act, Disconnect, LoadSettled, SaveDraft, SaveRegistered
<1>11. ASSUME NEW q \in Requests, ScriptStep(q) PROVE CallsInv'
  BY <1>11, ScriptMoves, NoCallMoves
<1>12. ASSUME UNCHANGED call PROVE CallsInv'
  BY <1>12, NoCallMoves
<1>13. CASE Next
  BY <1>13, <1>2, <1>3, <1>4, <1>9, <1>10, <1>11, <1>12
     DEF Next, AddModel, Expire, Switch, Deploy, Restart
<1> QED
  BY <1>12, <1>13 DEF vars

-----------------------------------------------------------------------------
(* The catalogue and the remote registries. *)

LEMMA CatalogStep ==
    ASSUME TypeOK, CatalogInv, [Next]_vars
    PROVE  CatalogInv'
<1>1. ASSUME NEW i \in Items, AddModel(i) PROVE CatalogInv'
  <2>1. IsFiniteSet(catalog \cup {i})
    BY FS_AddElement DEF CatalogInv
  <2> QED
    BY <1>1, <2>1 DEF AddModel, CatalogInv
<1>2. UNCHANGED catalog \/ \E i \in Items : AddModel(i)
  <2>1. ASSUME NEW q \in Requests, ScriptStep(q) PROVE UNCHANGED catalog
    BY <2>1, ScriptMoves
  <2> QED
    BY <2>1 DEF Next, vars, CallStep, MakePlan, CheckPlan, Refuse, Act, SendRegistration, Registers,
       Disconnect, LoadSettled, Load, SaveDraft, SaveRegistered, RequestDraft, RequestPlan,
       RequestConfirm, Expire, Switch, Deploy, Restart
<1> QED
  BY <1>1, <1>2 DEF CatalogInv

LEMMA RemoteStep ==
    ASSUME TypeOK, CallsInv, RemoteInv, [Next]_vars
    PROVE  RemoteInv'
<1>1. CASE UNCHANGED <<remote, script>>
  BY <1>1 DEF RemoteInv, OneRecordEach
<1>2. ASSUME NEW s \in Slots, NEW q \in Requests, SendRegistration(s, q) PROVE RemoteInv'
  <2>1. /\ UNCHANGED remote /\ script'[q].stage = "started"
        /\ \A o \in Requests : o # q => script'[o] = script[o]
    BY <1>2 DEF SendRegistration, TypeOK
  <2> QED
    BY <2>1 DEF RemoteInv, OneRecordEach
<1>3. ASSUME NEW q \in Requests, ScriptReads(q) PROVE RemoteInv'
  <2> DEFINE m == script[q].machine
  <2>1. script[q] \in Script /\ m \in Targets
    BY <1>3, ScriptMoves DEF ScriptStep, Script
  <2>2. CASE Accepts(remote[m], script[q].record)
    <3>1. script' = [script EXCEPT ![q] = [script[q] EXCEPT !.stage = "read", !.seen = remote[m]]]
      BY <1>3, <2>2 DEF ScriptReads
    <3>2. script'[q].seen = remote[m] /\ script'[q].record = script[q].record
      BY <2>1, <3>1 DEF Script, TypeOK
    <3>3. \A o \in Requests : o # q => script'[o] = script[o]
      BY <3>1 DEF TypeOK
    <3>4. UNCHANGED remote
      BY <1>3 DEF ScriptReads
    <3> QED
      BY <2>1, <2>2, <3>2, <3>3, <3>4 DEF RemoteInv, OneRecordEach, Accepts
  <2>3. CASE ~Accepts(remote[m], script[q].record)
    <3>1. script' = [script EXCEPT ![q] = [script[q] EXCEPT !.stage = "refused"]]
      BY <1>3, <2>3 DEF ScriptReads
    <3>2. script'[q].stage = "refused"
      BY <2>1, <3>1 DEF Script, TypeOK
    <3>3. UNCHANGED remote /\ \A o \in Requests : o # q => script'[o] = script[o]
      BY <1>3, <3>1 DEF ScriptReads, TypeOK
    <3> QED
      BY <3>2, <3>3 DEF RemoteInv, OneRecordEach
  <2> QED
    BY <2>2, <2>3
<1>4. ASSUME NEW q \in Requests, ScriptReplaces(q) \/ ScriptFails(q) PROVE RemoteInv'
  <2>1. script[q] \in Script /\ \A o \in Requests : o # q => script'[o] = script[o]
    BY <1>4, ScriptMoves DEF ScriptStep
  <2>2. script'[q].stage # "read"
    BY <1>4, <2>1 DEF ScriptReplaces, ScriptFails, TypeOK, Script
  <2>3. \A m \in Targets : OneRecordEach(remote'[m])
    <3>1. CASE ScriptReplaces(q)
      <4> DEFINE rs == script[q].seen \cup {script[q].record}
      <4>1. OneRecordEach(rs)
        BY <3>1 DEF ScriptReplaces, RemoteInv, OneRecordEach
      <4>2. remote' = [remote EXCEPT ![script[q].machine] = rs]
        BY <3>1 DEF ScriptReplaces
      <4> HIDE DEF rs
      <4> QED
        BY <4>1, <4>2 DEF RemoteInv, OneRecordEach, TypeOK
    <3>2. CASE ScriptFails(q)
      BY <3>2 DEF ScriptFails, RemoteInv, OneRecordEach
    <3> QED
      BY <1>4, <3>1, <3>2
  <2> QED
    BY <2>1, <2>2, <2>3 DEF RemoteInv, OneRecordEach
<1> QED
  BY <1>1, <1>2, <1>3, <1>4
     DEF Next, vars, ScriptStep, CallStep, MakePlan, CheckPlan, Refuse, Act, Registers,
       Disconnect, LoadSettled, Load, SaveDraft, SaveRegistered, RequestDraft, RequestPlan,
       RequestConfirm, AddModel, Expire, Switch, Deploy, Restart

-----------------------------------------------------------------------------
(* The local registry, and what calls have read of it. *)

\* A document keeps its promises while plans, scripts and the catalogue grow.
LEMMA DocKept ==
    ASSUME GrowsStep, NEW d \in Documents, DocOK(d)
    PROVE  DocOK(d)'
<1>1. ASSUME NEW i \in Items, d[i] # None PROVE i \in catalog' /\ EntryOK(i, d[i])'
  <2>1. d[i] \in Configurations /\ i \in catalog /\ EntryOK(i, d[i])
    BY <1>1 DEF DocOK, Documents, Entries
  <2>2. CASE d[i].status = "registered"
    <3>1. d[i].request \in Requests
      BY <2>1, <2>2 DEF Configurations
    <3> QED
      BY <2>1, <2>2, <3>1 DEF EntryOK, GrowsStep
  <2> QED
    BY <2>1, <2>2 DEF EntryOK, GrowsStep
<1> QED
  BY <1>1 DEF DocOK

\* A call between its load and its save that does not move keeps what it has read.
LEMMA SeenKept ==
    ASSUME TypeOK, CallsInv, DocsInv, [Next]_vars, NEW s \in Slots, At(s, "save"), call'[s] = call[s]
    PROVE  /\ call[s].seen \in Documents /\ DocOK(call[s].seen)'
           /\ ~IsDraft(s) => call[s].seen[call[s].item] # None
  BY Grows, DocKept DEF DocsInv, DocOK, EntryOK

LEMMA DocsStep ==
    ASSUME TypeOK, CallsInv, DocsInv, [Next]_vars
    PROVE  DocsInv'
<1>0. GrowsStep /\ registry \in Documents
  BY Grows DEF TypeOK
<1>1. ASSUME UNCHANGED registry PROVE DocOK(registry)'
  BY <1>0, <1>1, DocKept DEF DocsInv, DocOK, EntryOK
<1>2. ASSUME DocOK(registry)',
             \A s \in Slots : call'[s] = call[s] \/ call'[s].stage # "save"
      PROVE  DocsInv'
  <2>1. ASSUME NEW s \in Slots, At(s, "save")'
        PROVE  /\ call'[s].seen \in Documents /\ DocOK(call[s].seen)'
               /\ ~IsDraft(s)' => call'[s].seen[call'[s].item] # None
    BY <1>2, <2>1, SeenKept DEF At, IsDraft
  <2> QED
    BY <1>2, <2>1 DEF DocsInv
<1>3. ASSUME NEW s \in Slots, NEW c \in Calls, Proceed(s, c), c.stage # "save"
      PROVE  \A d \in Slots : call'[d] = call[d] \/ call'[d].stage # "save"
  BY <1>3 DEF Proceed, TypeOK
<1>4. Idle \in Calls /\ Idle.stage # "save"
  BY DEF Calls, Idle
<1>5. ASSUME NEW s \in Slots, Answer(s), UNCHANGED registry PROVE DocsInv'
  BY <1>1, <1>2, <1>3, <1>4, <1>5 DEF Answer
<1>6. ASSUME NEW s \in Slots, Load(s) PROVE DocsInv'
  <2> DEFINE c == [call[s] EXCEPT !.stage = "save", !.seen = registry]
  <2>1. /\ call[s] \in DraftCalls \/ call[s] \in PlanCalls
        /\ Proceed(s, c) /\ UNCHANGED registry
        /\ registry[call[s].item] # None \/ IsDraft(s)
    BY <1>6, CallKinds DEF Load, HasTurn, At
  <2>2. /\ call'[s] = c /\ c.seen = registry /\ c.item = call[s].item /\ c.kind = call[s].kind
        /\ \A d \in Slots : d # s => call'[d] = call[d]
    BY <2>1 DEF DraftCalls, PlanCalls, TypeOK, Proceed
  <2> HIDE DEF c
  <2>3. DocOK(registry)' /\ call'[s].seen = registry'
    BY <1>1, <2>1, <2>2
  <2>4. ASSUME NEW d \in Slots, At(d, "save")'
        PROVE  /\ call'[d].seen \in Documents /\ DocOK(call[d].seen)'
               /\ ~IsDraft(d)' => call'[d].seen[call'[d].item] # None
    <3>1. CASE d = s
      BY <1>0, <2>1, <2>2, <2>3, <3>1 DEF IsDraft
    <3>2. CASE d # s
      BY <2>2, <2>4, <3>2, SeenKept DEF At, IsDraft
    <3> QED
      BY <3>1, <3>2
  <2> QED
    BY <2>3, <2>4 DEF DocsInv
<1>7. ASSUME NEW s \in Slots, SaveDraft(s) PROVE DocsInv'
  <2>1. /\ call[s] \in DraftCalls /\ call[s].seen \in Documents /\ DocOK(call[s].seen)
        /\ call[s].item \in catalog
    BY <1>7, CallKinds DEF SaveDraft, At, IsDraft, DocsInv, CallsInv, CallOK
  <2>2. PICK dd \in Documents, i \in Items, t \in Templates :
          dd = call[s].seen /\ i = call[s].item /\ t = call[s].template
    BY <2>1 DEF DraftCalls
  <2>3. DocOK(dd)' /\ i \in catalog'
    BY <1>0, <2>1, <2>2, DocKept DEF GrowsStep
  <2>4. \A o \in Items : registry'[o] = IF o = i THEN Draft(t) ELSE dd[o]
    BY <1>7, <2>2 DEF SaveDraft, Documents
  <2>5. Draft(t).status # "registered"
    BY DEF Draft
  <2>6. DocOK(registry)'
    BY <2>3, <2>4, <2>5 DEF DocOK, EntryOK
  <2> QED
    BY <1>2, <1>3, <1>4, <1>7, <2>6 DEF SaveDraft, Answer
<1>8. ASSUME NEW s \in Slots, SaveRegistered(s) PROVE DocsInv'
  <2>1. /\ call[s] \in PlanCalls /\ call[s].seen \in Documents /\ DocOK(call[s].seen)
        /\ call[s].seen[call[s].item] # None /\ CallOK(call[s]) /\ call[s].stage = "save"
        /\ call[s].plan \in Plans /\ plans[call[s].plan] # None /\ call[s].kind = "confirm"
    <3>1. call[s] \in PlanCalls /\ call[s].stage = "save"
      BY <1>8, CallKinds DEF SaveRegistered, At, IsDraft
    <3> QED
      BY <1>8, <3>1, OwnPlan, CallKinds DEF SaveRegistered, At, IsDraft, DocsInv, CallsInv, Sent
  <2>2. PICK dd \in Documents, i \in Items, q \in Requests, p \in Plans, a \in Adapters :
          /\ dd = call[s].seen /\ i = call[s].item /\ q = call[s].request
          /\ p = call[s].plan /\ a = call[s].adapter
    BY <2>1 DEF PlanCalls, CallOK, PlanCallOK, Sent, TypeOK, Plan
  <2>3. /\ script[q] # None /\ script[q].stage = "written"
        /\ script[q].record.item = i /\ script[q].record.adapter = a
        /\ plans[p] # None
        /\ plans[p].purpose = "register" /\ plans[p].item = i /\ plans[p].adapter = a
    BY <2>1, <2>2 DEF CallOK, PlanCallOK, Sent
  <2>4. /\ script'[q] # None /\ script'[q].stage = "written"
        /\ script'[q].record.item = i /\ script'[q].record.adapter = a
        /\ plans'[p] # None
        /\ plans'[p].purpose = "register" /\ plans'[p].item = i /\ plans'[p].adapter = a
    BY <1>0, <2>3 DEF GrowsStep
  <2>5. DocOK(dd)' /\ i \in catalog'
    BY <1>0, <2>1, <2>2, DocKept DEF GrowsStep, DocOK
  <2> DEFINE e == [status |-> "registered", template |-> dd[i].template, adapter |-> a, request |-> q]
  <2>6. \A o \in Items : registry'[o] = IF o = i THEN e ELSE dd[o]
    BY <1>8, <2>2 DEF SaveRegistered, Documents
  <2>7. e.request = q /\ e.adapter = a
    OBVIOUS
  <2> HIDE DEF e
  <2>8. DocOK(registry)'
    BY <2>4, <2>5, <2>6, <2>7 DEF DocOK, EntryOK
  <2> QED
    BY <1>2, <1>3, <1>4, <1>8, <2>8 DEF SaveRegistered, Answer
<1>9. ASSUME NEW s \in Slots, CheckPlan(s) PROVE DocsInv'
  <2>1. call[s] \in PlanCalls
    BY <1>9, CallKinds DEF CheckPlan, At
  <2>2. PICK a \in Bound(s) : Proceed(s, [call[s] EXCEPT !.stage = "send", !.adapter = a])
    BY <1>9 DEF CheckPlan
  <2>3. \A d \in Slots : call'[d] = call[d] \/ call'[d].stage # "save"
    BY <2>1, <2>2 DEF Proceed, TypeOK, PlanCalls
  <2> QED
    BY <1>1, <1>2, <1>9, <2>3 DEF CheckPlan
<1>10. ASSUME NEW s \in Slots, NEW q \in Requests, SendRegistration(s, q) PROVE DocsInv'
  <2>1. call[s] \in PlanCalls
    BY <1>10, ScriptSent
  <2>2. \A d \in Slots : call'[d] = call[d] \/ call'[d].stage # "save"
    BY <1>10, <2>1 DEF SendRegistration, Proceed, TypeOK, PlanCalls
  <2> QED
    BY <1>1, <1>2, <1>10, <2>2 DEF SendRegistration
<1>11. ASSUME NEW s \in Slots, Registers(s) PROVE DocsInv'
  <2>1. call[s] \in PlanCalls
    BY <1>11, CallKinds DEF Registers, At, DraftCalls
  <2>2. \A d \in Slots : call'[d] = call[d] \/ call'[d].stage # "save"
    BY <1>11, <2>1 DEF Registers, Proceed, TypeOK, PlanCalls
  <2> QED
    BY <1>1, <1>2, <1>11, <2>2 DEF Registers
<1>12. ASSUME NEW s \in Slots, CallStep(s) PROVE DocsInv'
  BY <1>12, <1>5, <1>6, <1>7, <1>8, <1>9, <1>10, <1>11
     DEF CallStep, MakePlan, Refuse, Act, Disconnect, LoadSettled
<1>13. ASSUME UNCHANGED <<registry, call>> PROVE DocsInv'
  BY <1>1, <1>2, <1>13
<1>14. ASSUME NEW s \in Slots, NEW i \in Items, NEW t \in Templates, RequestDraft(s, i, t)
       PROVE  DocsInv'
  BY <1>1, <1>2, <1>14 DEF RequestDraft, Proceed, TypeOK
<1>15. ASSUME NEW s \in Slots, NEW k \in {"plan", "confirm"}, NEW p \in Plans, NEW i, NEW u,
              Precheck(s, k, p, i, u), UNCHANGED registry
       PROVE  DocsInv'
  BY <1>1, <1>2, <1>15 DEF Precheck, Proceed, TypeOK
<1>16. ASSUME Restart PROVE DocsInv'
  <2>1. \A s \in Slots : call'[s] = call[s] \/ call'[s].stage # "save"
    BY <1>4, <1>16 DEF Restart
  <2> QED
    BY <1>1, <1>2, <1>16, <2>1 DEF Restart
<1>17. ASSUME NEW q \in Requests, ScriptStep(q) PROVE DocsInv'
  BY <1>17, <1>13, ScriptMoves
<1>18. CASE Next
  BY <1>18, <1>12, <1>13, <1>14, <1>15, <1>16, <1>17
     DEF Next, RequestPlan, RequestConfirm, AddModel, Expire, Switch, Deploy
<1> QED
  BY <1>13, <1>18 DEF vars

-----------------------------------------------------------------------------
(* One core: what was read is what is there. *)

\* A call about to save is the only one, has read the present document, and does
\* not touch a registered configuration.
SaverAlone ==
    \A s \in Slots : At(s, "save") =>
        /\ call[s].seen = registry /\ ~Registered(call[s].item)
        /\ \A d \in Slots : At(d, "save") => d = s

\* What was read of a registered configuration is still so.
EntriesCurrent ==
    \A s \in Slots : At(s, "discover") /\ call[s].entry.status = "registered" =>
        registry[call[s].item] = call[s].entry

\* Plans of actions name the adapter their configuration was registered with.
PlansCurrent ==
    \A p \in Plans : plans[p] # None /\ plans[p].purpose = "act" =>
        Registered(plans[p].item) /\ registry[plans[p].item].adapter = plans[p].adapter

ActedCurrent == \A r \in acted : Registered(r.item) /\ registry[r.item].adapter = r.adapter

OneCore == core = 0 => SaverAlone /\ EntriesCurrent /\ PlansCurrent /\ ActedCurrent

\* Under one core a step changes no registered configuration.
LEMMA RegisteredKept ==
    ASSUME TypeOK, CallsInv, SaverAlone, [Next]_vars
    PROVE  \A i \in Items : Registered(i) => registry'[i] = registry[i]
<1>1. CASE UNCHANGED registry
  BY <1>1
<1>2. ASSUME NEW s \in Slots, NEW e,
             At(s, "save"), call[s].item \in Items,
             registry' = [call[s].seen EXCEPT ![call[s].item] = e]
      PROVE  \A i \in Items : Registered(i) => registry'[i] = registry[i]
  BY <1>2 DEF SaverAlone, TypeOK, Documents
<1>3. ASSUME NEW s \in Slots, SaveDraft(s) \/ SaveRegistered(s)
      PROVE  \A i \in Items : Registered(i) => registry'[i] = registry[i]
  <2>1. At(s, "save") /\ call[s].item \in Items
    BY <1>3, CallKinds DEF SaveDraft, SaveRegistered, At, DraftCalls, PlanCalls
  <2>2. CASE SaveDraft(s)
    BY <1>2, <2>1, <2>2 DEF SaveDraft
  <2>3. CASE SaveRegistered(s)
    BY <1>2, <2>1, <2>3 DEF SaveRegistered
  <2> QED
    BY <1>3, <2>2, <2>3
<1>4. ASSUME NEW q \in Requests, ScriptStep(q) PROVE UNCHANGED registry
  BY <1>4, ScriptMoves
<1> QED
  BY <1>1, <1>3, <1>4
     DEF Next, vars, CallStep, MakePlan, CheckPlan, Refuse, Act, SendRegistration, Registers,
       Disconnect, LoadSettled, Load, RequestDraft, RequestPlan, RequestConfirm, AddModel,
       Expire, Switch, Deploy, Restart

\* Of the requests only the one that moves can get to its save or be prechecked.
LEMMA OthersKept ==
    ASSUME TypeOK, CallsInv, SaverAlone, EntriesCurrent, [Next]_vars,
           NEW d \in Slots, call'[d] = call[d]
    PROVE  /\ At(d, "discover") /\ call[d].entry.status = "registered" =>
                registry'[call'[d].item] = call'[d].entry
           /\ At(d, "save") => ~Registered(call[d].item)
<1>1. At(d, "discover") => call[d] \in PlanCalls
  BY CallKinds DEF At, DraftCalls
<1>2. ASSUME At(d, "discover"), call[d].entry.status = "registered"
      PROVE  registry'[call'[d].item] = call'[d].entry
  <2>1. call[d].item \in Items /\ registry[call[d].item] = call[d].entry /\ call[d].entry # None
    <3>1. call[d] # Idle /\ call[d] \in PlanCalls /\ call[d].kind # "draft"
      BY <1>1, <1>2, CallKinds DEF At, PlanCalls
    <3>2. PlanCallOK(call[d])
      BY <3>1 DEF CallsInv, CallOK
    <3> QED
      BY <1>2, <3>1, <3>2 DEF EntriesCurrent, PlanCallOK, PlanCalls, At
  <2>2. Registered(call[d].item)
    BY <1>2, <2>1 DEF Registered
  <2> QED
    BY <2>1, <2>2, RegisteredKept
<1> QED
  BY <1>2 DEF SaverAlone

LEMMA EntriesStep ==
    ASSUME TypeOK, CallsInv, SaverAlone, EntriesCurrent, [Next]_vars
    PROVE  EntriesCurrent'
<1>1. ASSUME NEW s \in Slots, NEW c, Proceed(s, c),
             c.stage = "discover" => c.entry = registry[c.item] /\ UNCHANGED registry
      PROVE  EntriesCurrent'
  BY <1>1, OthersKept DEF Proceed, TypeOK, EntriesCurrent, At
<1>2. ASSUME UNCHANGED call PROVE EntriesCurrent'
  BY <1>2, OthersKept DEF EntriesCurrent, At
<1>3. ASSUME NEW s \in Slots, NEW k, NEW p, NEW i, NEW u, Precheck(s, k, p, i, u), UNCHANGED registry
      PROVE  EntriesCurrent'
  <2> DEFINE c == [stage |-> "discover", kind |-> k, core |-> core, item |-> i, plan |-> p,
                   purpose |-> u, entry |-> registry[i], adapter |-> None,
                   request |-> None, seen |-> None]
  <2>1. Proceed(s, c) /\ c.entry = registry[c.item]
    BY <1>3 DEF Precheck
  <2> QED
    BY <1>1, <1>3, <2>1
<1>4. ASSUME NEW s \in Slots, CallStep(s) PROVE EntriesCurrent'
  <2>1. \A d \in Slots : d # s => call'[d] = call[d]
    BY <1>4 DEF CallStep, MakePlan, CheckPlan, Refuse, Act, SendRegistration, Registers, Disconnect,
       LoadSettled, Load, SaveDraft, SaveRegistered, Answer, Proceed, TypeOK
  <2>2. call'[s].stage # "discover"
    <3>1. CASE Answer(s)
      BY <3>1 DEF Answer, Proceed, TypeOK, Idle
    <3>2. CASE ~Answer(s)
      <4>1. call[s] \in DraftCalls \/ call[s] \in PlanCalls
        BY <1>4, <3>2, CallKinds DEF CallStep, MakePlan, CheckPlan, Refuse, Act, SendRegistration,
           Registers, Disconnect, LoadSettled, Load, SaveDraft, SaveRegistered, At, HasTurn
      <4>2. CASE CheckPlan(s)
        <5>1. PICK a \in Bound(s) : Proceed(s, [call[s] EXCEPT !.stage = "send", !.adapter = a])
          BY <4>2 DEF CheckPlan
        <5> QED
          BY <4>1, <5>1 DEF Proceed, TypeOK, DraftCalls, PlanCalls
      <4>3. ASSUME NEW q \in Requests, SendRegistration(s, q) PROVE call'[s].stage # "discover"
        BY <4>1, <4>3 DEF SendRegistration, Proceed, TypeOK, DraftCalls, PlanCalls
      <4>4. CASE Registers(s)
        BY <4>1, <4>4 DEF Registers, Proceed, TypeOK, DraftCalls, PlanCalls
      <4>5. CASE Load(s)
        BY <4>1, <4>5 DEF Load, Proceed, TypeOK, DraftCalls, PlanCalls
      <4> QED
        BY <1>4, <3>2, <4>2, <4>3, <4>4, <4>5 DEF CallStep, MakePlan, Refuse, Act, Disconnect,
           LoadSettled, SaveDraft, SaveRegistered
    <3> QED
      BY <3>1, <3>2
  <2> QED
    BY <2>1, <2>2, OthersKept DEF EntriesCurrent, At
<1>5. ASSUME NEW s \in Slots, NEW i \in Items, NEW t \in Templates, RequestDraft(s, i, t)
      PROVE  EntriesCurrent'
  <2> DEFINE c == [stage |-> "load", kind |-> "draft", core |-> core, item |-> i,
                   template |-> t, seen |-> None]
  <2>1. Proceed(s, c) /\ c.stage # "discover"
    BY <1>5 DEF RequestDraft
  <2> QED
    BY <1>1, <2>1
<1>6. ASSUME Restart PROVE EntriesCurrent'
  <2>1. CASE UNCHANGED call
    BY <1>2, <2>1
  <2>2. CASE call' = [s \in Slots |-> Idle]
    BY <2>2 DEF EntriesCurrent, At, Idle
  <2> QED
    BY <1>6, <2>1, <2>2 DEF Restart
<1>7. ASSUME NEW q \in Requests, ScriptStep(q) PROVE EntriesCurrent'
  BY <1>7, <1>2, ScriptMoves
<1>8. CASE Next
  BY <1>8, <1>2, <1>3, <1>4, <1>5, <1>6, <1>7
     DEF Next, RequestPlan, RequestConfirm, AddModel, Expire, Switch, Deploy
<1> QED
  BY <1>2, <1>8 DEF vars

\* A request gets to its save by its load only.
LEMMA OnlyLoads ==
    ASSUME TypeOK, CallsInv, [Next]_vars, NEW s \in Slots,
           call'[s] # call[s], At(s, "save")'
    PROVE  Load(s)
<1>1. ASSUME NEW d \in Slots, NEW c, Proceed(d, c) PROVE s = d /\ c.stage = "save"
  BY <1>1 DEF Proceed, TypeOK, At
<1>2. ASSUME NEW d \in Slots, CallStep(d) PROVE Load(s)
  <2>1. ~Answer(d)
    BY <1>1 DEF Answer, Idle
  <2>2. CASE CheckPlan(d)
    <3>1. PICK a \in Bound(d) : Proceed(d, [call[d] EXCEPT !.stage = "send", !.adapter = a])
      BY <2>2 DEF CheckPlan
    <3>2. call[d] \in PlanCalls
      BY <2>2, CallKinds DEF CheckPlan, At
    <3>3. [call[d] EXCEPT !.stage = "send", !.adapter = a].stage = "send"
      BY <3>2 DEF PlanCalls
    <3> QED
      BY <1>1, <3>1, <3>3
  <2>3. ASSUME NEW q \in Requests, SendRegistration(d, q) PROVE Load(s)
    <3>1. call[d] \in PlanCalls
      BY <2>3, ScriptSent
    <3> DEFINE c == [call[d] EXCEPT !.stage = "waiting", !.entry = None, !.request = q]
    <3>2. Proceed(d, c) /\ c.stage = "waiting"
      BY <2>3, <3>1 DEF SendRegistration, PlanCalls
    <3> HIDE DEF c
    <3> QED
      BY <1>1, <3>2
  <2>4. CASE Registers(d)
    <3>1. call[d] \in PlanCalls
      BY <2>4, CallKinds DEF Registers, At, DraftCalls
    <3> QED
      BY <1>1, <2>4, <3>1 DEF Registers, PlanCalls
  <2>5. CASE Load(d)
    BY <1>1, <2>5 DEF Load
  <2> QED
    BY <1>2, <2>1, <2>2, <2>3, <2>4, <2>5 DEF CallStep, MakePlan, Refuse, Act, Disconnect,
       LoadSettled, SaveDraft, SaveRegistered
<1>3. ASSUME Restart PROVE FALSE
  BY <1>3 DEF Restart, Idle, At
<1>4. ASSUME NEW q \in Requests, ScriptStep(q) PROVE FALSE
  BY <1>4, ScriptMoves
<1>5. ASSUME NEW d \in Slots, NEW i \in Items, NEW t \in Templates, RequestDraft(d, i, t) PROVE FALSE
  <2> DEFINE c == [stage |-> "load", kind |-> "draft", core |-> core, item |-> i,
                   template |-> t, seen |-> None]
  <2>1. Proceed(d, c) /\ c.stage # "save"
    BY <1>5 DEF RequestDraft
  <2> QED
    BY <1>1, <2>1
<1>6. ASSUME NEW d \in Slots, NEW k, NEW p, NEW i, NEW u, Precheck(d, k, p, i, u) PROVE FALSE
  <2> DEFINE c == [stage |-> "discover", kind |-> k, core |-> core, item |-> i, plan |-> p,
                   purpose |-> u, entry |-> registry[i], adapter |-> None,
                   request |-> None, seen |-> None]
  <2>1. Proceed(d, c) /\ c.stage # "save"
    BY <1>6 DEF Precheck
  <2> QED
    BY <1>1, <2>1
<1> QED
  BY <1>2, <1>3, <1>4, <1>5, <1>6 DEF Next, vars, RequestPlan, RequestConfirm, AddModel, Expire, Switch, Deploy

\* The registry file is written by saves only.
LEMMA OnlySaves ==
    ASSUME TypeOK, [Next]_vars
    PROVE  UNCHANGED registry \/ \E s \in Slots : SaveDraft(s) \/ SaveRegistered(s)
<1>1. ASSUME NEW q \in Requests, ScriptStep(q) PROVE UNCHANGED registry
  BY <1>1, ScriptMoves
<1> QED
  BY <1>1
     DEF Next, vars, CallStep, MakePlan, CheckPlan, Refuse, Act, SendRegistration, Registers,
       Disconnect, LoadSettled, Load, RequestDraft, RequestPlan, RequestConfirm, AddModel,
       Expire, Switch, Deploy, Restart

\* Under one core every request is of that core.
LEMMA CallsOfCore ==
    ASSUME TypeOK, CallsInv, core = 0, NEW s \in Slots, call[s].stage # "idle"
    PROVE  call[s].core = 0
<1>1. call[s].core \in Nat /\ call[s].core <= core
  BY CallKinds DEF CallsInv, CallOK, DraftCalls, PlanCalls
<1> QED
  BY <1>1

LEMMA SaverStep ==
    ASSUME TypeOK, CallsInv, core = 0, SaverAlone, [Next]_vars
    PROVE  SaverAlone'
<1>1. ASSUME NEW s \in Slots, SaveDraft(s) \/ SaveRegistered(s) PROVE SaverAlone'
  <2>1. At(s, "save") /\ Answer(s)
    BY <1>1 DEF SaveDraft, SaveRegistered
  <2>2. \A d \in Slots : ~At(d, "save")'
    BY <2>1 DEF SaverAlone, At, Answer, Proceed, Idle, TypeOK
  <2> QED
    BY <2>2 DEF SaverAlone
<1>2. ASSUME UNCHANGED registry PROVE SaverAlone'
  <2>1. CASE \E s \in Slots : Load(s)
    <3>1. PICK s \in Slots : Load(s)
      BY <2>1
    <3>2. \A d \in Slots : ~At(d, "save")
      <4>1. ASSUME NEW d \in Slots, At(d, "save") PROVE FALSE
        BY <3>1, <4>1, CallsOfCore DEF Load, HasTurn, At
      <4> QED
        BY <4>1
    <3> DEFINE c == [call[s] EXCEPT !.stage = "save", !.seen = registry]
    <3>3. /\ call'[s] = c /\ c.seen = registry /\ c.item = call[s].item
          /\ \A d \in Slots : d # s => call'[d] = call[d]
      <4>1. call[s] \in DraftCalls \/ call[s] \in PlanCalls
        BY <3>1, CallKinds DEF Load, HasTurn, At
      <4> QED
        BY <3>1, <4>1 DEF Load, Proceed, DraftCalls, PlanCalls, TypeOK
    <3>4. ~Registered(call[s].item)
      BY <3>1 DEF Load, Settled, Registered
    <3> HIDE DEF c
    <3> QED
      BY <1>2, <3>2, <3>3, <3>4 DEF SaverAlone, At, Registered
  <2>2. CASE \A s \in Slots : ~Load(s)
    <3>1. \A s \in Slots : At(s, "save")' => call'[s] = call[s]
      BY <2>2, OnlyLoads
    <3> QED
      BY <1>2, <3>1 DEF SaverAlone, At, Registered
  <2> QED
    BY <2>1, <2>2
<1> QED
  BY <1>1, <1>2, OnlySaves

\* A plan made for an action names the adapter of the configuration it read.
LEMMA PlansStep ==
    ASSUME TypeOK, CallsInv, SaverAlone, EntriesCurrent, PlansCurrent, [Next]_vars
    PROVE  PlansCurrent'
<1>0. \A i \in Items : Registered(i) => registry'[i] = registry[i]
  BY RegisteredKept
<1>1. ASSUME NEW p \in Plans, NEW i \in Items, NEW a \in Adapters,
             plans'[p].item = i, plans'[p].adapter = a,
             Registered(i), registry[i].adapter = a
      PROVE  Registered(plans[p].item)' /\ registry'[plans'[p].item].adapter = plans'[p].adapter
  BY <1>0, <1>1 DEF Registered
<1>2. ASSUME NEW p \in Plans, plans[p] # None, plans[p].purpose = "act",
             plans'[p].item = plans[p].item, plans'[p].adapter = plans[p].adapter
      PROVE  Registered(plans[p].item)' /\ registry'[plans'[p].item].adapter = plans'[p].adapter
  <2>1. plans[p] \in Plan
    BY <1>2 DEF TypeOK
  <2> QED
    BY <1>1, <1>2, <2>1 DEF PlansCurrent, Plan
<1>3. ASSUME NEW s \in Slots, MakePlan(s), NEW p \in Plans, plans'[p] # None,
             plans[p] = None, plans'[p].purpose = "act"
      PROVE  Registered(plans[p].item)' /\ registry'[plans'[p].item].adapter = plans'[p].adapter
  <2>1. call[s] \in PlanCalls /\ call[s].entry # None
    BY <1>3, CallKinds DEF MakePlan, At, CallsInv, CallOK, PlanCallOK, PlanCalls
  <2>2. PICK a \in Found(call[s].entry) : plans' = [plans EXCEPT ![call[s].plan] =
            [open |-> TRUE, purpose |-> call[s].purpose, item |-> call[s].item,
             adapter |-> a, core |-> call[s].core]]
    BY <1>3 DEF MakePlan
  <2>3. /\ p = call[s].plan /\ plans'[p].item = call[s].item /\ plans'[p].adapter = a
        /\ call[s].purpose = "act"
    BY <1>3, <2>1, <2>2 DEF PlanCalls, TypeOK
  <2>4. call[s].entry.status = "registered" /\ a = call[s].entry.adapter /\ a \in Adapters
    BY <1>3, <2>3 DEF MakePlan, Found, AdaptersOn, Adapters, TypeOK
  <2>5. registry[call[s].item] = call[s].entry /\ call[s].item \in Items
    BY <1>3, <2>1, <2>4 DEF EntriesCurrent, MakePlan, PlanCalls
  <2> QED
    BY <1>1, <2>1, <2>3, <2>4, <2>5 DEF Registered
<1>4. ASSUME NEW p \in Plans, plans'[p] # None, plans[p] = None
      PROVE  \E s \in Slots : MakePlan(s)
  <2>1. ASSUME NEW q \in Requests, ScriptStep(q) PROVE FALSE
    BY <1>4, <2>1, ScriptMoves
  <2>2. ASSUME NEW o \in Plans, Expire(o) PROVE FALSE
    BY <1>4, <2>2 DEF Expire, TypeOK
  <2>3. ASSUME NEW s \in Slots, Act(s) \/ LoadSettled(s) \/ SaveRegistered(s) PROVE FALSE
    <3>1. ClosePlan(s) /\ call[s].stage \in {"send"} \cup Sent
      BY <1>4, <2>3 DEF Act, LoadSettled, SaveRegistered, At, HasTurn, Sent
    <3>2. call[s] \in PlanCalls
      BY <1>4, <2>3, <3>1, CallKinds DEF Act, LoadSettled, SaveRegistered, At, IsDraft, DraftCalls, Sent
    <3>3. call[s].plan \in Plans /\ plans[call[s].plan] # None
      BY <3>1, <3>2, OwnPlan
    <3> QED
      BY <1>4, <3>1, <3>3 DEF ClosePlan, TypeOK
  <2> QED
    BY <1>4, <2>1, <2>2, <2>3
       DEF Next, vars, CallStep, CheckPlan, Refuse, SendRegistration, Registers, Disconnect,
         Load, SaveDraft, RequestDraft, RequestPlan, RequestConfirm, AddModel, Switch, Deploy, Restart
<1>5. \A p \in Plans : plans[p] # None =>
        /\ plans'[p].item = plans[p].item /\ plans'[p].adapter = plans[p].adapter
        /\ plans'[p].purpose = plans[p].purpose
  BY Grows DEF GrowsStep
<1> QED
  BY <1>2, <1>3, <1>4, <1>5 DEF PlansCurrent

\* What is sent is what the plan names.
LEMMA ActedStep ==
    ASSUME TypeOK, CallsInv, SaverAlone, PlansCurrent, ActedCurrent, [Next]_vars
    PROVE  ActedCurrent'
<1>1. \A r \in acted : r.item \in Items
  BY DEF TypeOK
<1>2. \A r \in acted : Registered(r.item)' /\ registry'[r.item].adapter = r.adapter
  BY <1>1, RegisteredKept DEF ActedCurrent, Registered
<1>3. ASSUME NEW s \in Slots, Act(s) PROVE ActedCurrent'
  <2>1. call[s] \in PlanCalls /\ call[s].plan \in Plans /\ plans[call[s].plan] # None
        /\ call[s].kind = "confirm" /\ call[s] # Idle /\ call[s].stage = "send"
    <3>1. call[s] \in PlanCalls
      BY <1>3, CallKinds DEF Act, At, DraftCalls
    <3> QED
      BY <1>3, <3>1, OwnPlan, CallKinds DEF Act, At
  <2>2. /\ plans[call[s].plan].item = call[s].item /\ plans[call[s].plan].purpose = "act"
        /\ plans[call[s].plan].adapter = call[s].adapter
    BY <1>3, <2>1 DEF Act, CallsInv, CallOK, PlanCallOK
  <2>3. Registered(call[s].item) /\ registry[call[s].item].adapter = call[s].adapter
    BY <2>1, <2>2 DEF PlansCurrent
  <2>4. UNCHANGED registry /\ acted' = acted \cup {[item |-> call[s].item, adapter |-> call[s].adapter]}
    BY <1>3 DEF Act
  <2> QED
    BY <2>3, <2>4 DEF ActedCurrent, Registered
<1>4. UNCHANGED acted \/ \E s \in Slots : Act(s)
  <2>1. ASSUME NEW q \in Requests, ScriptStep(q) PROVE UNCHANGED acted
    BY <2>1, ScriptMoves
  <2> QED
    BY <2>1
       DEF Next, vars, CallStep, MakePlan, CheckPlan, Refuse, SendRegistration, Registers, Disconnect,
         LoadSettled, Load, SaveDraft, SaveRegistered, RequestDraft, RequestPlan, RequestConfirm,
         AddModel, Expire, Switch, Deploy, Restart
<1> QED
  BY <1>2, <1>3, <1>4 DEF ActedCurrent

LEMMA OneCoreStep ==
    ASSUME TypeOK, CallsInv, OneCore, [Next]_vars
    PROVE  OneCore'
<1>1. ASSUME core' = 0 PROVE core = 0
  BY <1>1, Grows, TypeStepCore DEF GrowsStep, TypeOK
<1> QED
  BY <1>1, SaverStep, EntriesStep, PlansStep, ActedStep DEF OneCore

-----------------------------------------------------------------------------
(* The theorems. *)

LEMMA InitInv == ASSUME Init PROVE Inv /\ OneCore
<1>1. TypeOK
  BY ManagedTargets DEF Init, TypeOK, Documents, Entries, Calls
<1>2. CallsInv
  BY DEF Init, CallsInv
<1>3. DocsInv
  BY DEF Init, DocsInv, DocOK, At, Idle
<1>4. CatalogInv
  BY FS_EmptySet, ManagedBounds DEF Init, CatalogInv
<1>5. RemoteInv
  BY DEF Init, RemoteInv, OneRecordEach
<1>6. OneCore
  BY DEF Init, OneCore, SaverAlone, EntriesCurrent, PlansCurrent, ActedCurrent, At, Idle
<1> QED
  BY <1>1, <1>2, <1>3, <1>4, <1>5, <1>6 DEF Inv

\* The invariant the properties rest on, for every value of the constants.
THEOREM ManagedInvariant == Spec => [](Inv /\ OneCore)
<1>1. Inv /\ OneCore /\ [Next]_vars => (Inv /\ OneCore)'
  BY TypeStep, CallsStep, DocsStep, CatalogStep, RemoteStep, OneCoreStep DEF Inv
<1> QED
  BY <1>1, InitInv, PTL DEF Spec

\* Requests, plans, scripts and documents keep their shape.
THEOREM ManagedTypeCorrect == Spec => []TypeOK
<1>1. Inv => TypeOK
  BY DEF Inv
<1> QED
  BY <1>1, ManagedInvariant, PTL

\* markRegistered never runs ahead of the remote registry.
THEOREM WrittenBeforeRegistered == Spec => []RegisteredWasWritten
<1>1. Inv => RegisteredWasWritten
  BY DEF Inv, DocsInv, DocOK, EntryOK, RegisteredWasWritten, Registered
<1> QED
  BY <1>1, ManagedInvariant, PTL

\* What is registered is what a registration plan has named.
THEOREM PlannedBeforeRegistered == Spec => []RegisteredAsPlanned
<1>1. Inv => RegisteredAsPlanned
  BY DEF Inv, DocsInv, DocOK, EntryOK, RegisteredAsPlanned, Registered
<1> QED
  BY <1>1, ManagedInvariant, PTL

\* Overlapping registration scripts never record a configuration twice.
THEOREM RecordedOnce == Spec => []OneRemoteRecord
<1>1. Inv => OneRemoteRecord
  BY DEF Inv, RemoteInv, OneRecordEach, OneRemoteRecord
<1> QED
  BY <1>1, ManagedInvariant, PTL

\* The local registry stays within the limit it is read back with.
THEOREM RegistryStaysReadable == Spec => []RegistryReadable
<1>1. ASSUME Inv PROVE RegistryReadable
  <2> DEFINE configured == {i \in Items : registry[i] # None}
  <2>1. configured \subseteq catalog
    BY <1>1 DEF Inv, DocsInv, DocOK
  <2>2. IsFiniteSet(catalog) /\ Cardinality(catalog) <= MaxEntries
    BY <1>1 DEF Inv, CatalogInv
  <2>3. Cardinality(configured) <= Cardinality(catalog) /\ IsFiniteSet(configured)
    BY <2>1, <2>2, FS_Subset
  <2>4. Cardinality(configured) \in Nat /\ Cardinality(catalog) \in Nat /\ MaxEntries \in Nat
    BY <2>2, <2>3, FS_CardinalityType, ManagedBounds
  <2> QED
    BY <2>2, <2>3, <2>4 DEF RegistryReadable, Readable
<1> QED
  BY <1>1, ManagedInvariant, PTL

\* A registered service was planned, and written on the DGX first.
THEOREM RegistrationIsSound == Spec => []RegistrationSound
<1>1. RegisteredWasWritten /\ RegisteredAsPlanned /\ OneRemoteRecord /\ RegistryReadable
        => RegistrationSound
  BY DEF RegistrationSound
<1> QED
  BY <1>1, WrittenBeforeRegistered, PlannedBeforeRegistered, RecordedOnce,
     RegistryStaysReadable, PTL

\* Under one core a registration is for good.
THEOREM RegistrationStays == Spec => RegisteredStays
<1>1. ASSUME Inv, OneCore, [Next]_vars
      PROVE  [core = 0 => \A i \in Items : Registered(i) => registry'[i] = registry[i]]_vars
  BY <1>1, RegisteredKept DEF Inv, OneCore
<1> QED
  BY <1>1, ManagedInvariant, PTL DEF Spec, RegisteredStays

\* Under one core actions are sent with the registered adapter verified.
THEOREM ActionsRunRegistered == Spec => []ActsOnRegisteredAdapter
<1>1. OneCore => ActsOnRegisteredAdapter
  BY DEF OneCore, ActedCurrent, ActsOnRegisteredAdapter
<1> QED
  BY <1>1, ManagedInvariant, PTL
=============================================================================
