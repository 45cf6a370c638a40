--------------------------- MODULE ManagedServices ---------------------------
(***************************************************************************)
(* Managed model services (backend/src/application-core.mjs,               *)
(* model-service-registry.mjs, model-service-registration.mjs,             *)
(* model-catalog.mjs): models of the catalogue become local drafts, a      *)
(* confirmed plan registers a draft on the DGX and then in the local       *)
(* registry, and further plans run actions of the registered adapter.      *)
(*                                                                         *)
(* Every request is a slot that goes through awaits.  The active profile   *)
(* is read first (with the registry, in one step here), again by the       *)
(* session that discovers the adapters, and again when something is sent.  *)
(* A registration is a script on the machine that reads the remote         *)
(* registry and replaces it, and that may outlive the ssh client.  Plans   *)
(* live in the memory of one application core; the desktop may build a new *)
(* core while requests of the old one go on, and both write the same local *)
(* registry.                                                               *)
(*                                                                         *)
(* Left out: names shown to the user, what the resource and queue checks   *)
(* compare (they may refuse), rebinding (no caller), and an addition to    *)
(* the catalogue is one step, its queue being local to a core.             *)
(***************************************************************************)
EXTENDS Integers, FiniteSets

CONSTANTS
    Items,        \* different models, each on a machine: a catalogue entry, a configuration
    Targets,      \* verified machines
    TargetOf,     \* per item: its machine
    Templates,    \* service templates; each has its adapter on a machine
    Digests,      \* digests of an adapter's run.sh
    Slots,        \* requests in flight
    Plans,        \* plan identifiers
    Requests,     \* registration identifiers
    None,         \* no value
    MaxEntries,   \* the limit on the catalogue and on the local registry
    MaxRecords,   \* the limit on a machine's registry
    MaxEvents     \* bound: other profiles activated, adapters installed again, restarts

ASSUME ManagedTargets == TargetOf \in [Items -> Targets]
ASSUME ManagedBounds == {MaxEntries, MaxRecords, MaxEvents} \subseteq Nat

Adapters == [template: Templates, digest: Digests]

\* A configuration of the local registry; None: there is none.
Configurations ==
    [status: {"draft"}, template: Templates]
    \cup [status: {"registered"}, template: Templates, adapter: Adapters, request: Requests]

Entries == {None} \cup Configurations

Documents == [Items -> Entries]

Record == [request: Requests, item: Items, template: Templates, adapter: Adapters]

Purposes == {"register", "act"}

Plan == [open: BOOLEAN, purpose: Purposes, item: Items, adapter: Adapters, core: Nat]

\* A registration script on a machine, with what it has read.
Script == [stage: {"started", "read", "written", "refused"}, machine: Targets,
           record: Record, seen: SUBSET Record]

ASSUME ManagedNone ==
    None \notin Requests \cup Adapters \cup Configurations \cup Documents \cup Plan \cup Script

VARIABLES
    active,    \* the machine of the active, verified profile
    installed, \* per machine: the digest of every template's adapter
    catalog,   \* model catalogue: the items it lists
    registry,  \* local registry file
    remote,    \* per machine: the records of its registry file
    script,    \* per registration sent: its script on the machine
    plans,     \* plans ever made; open until deleted
    call,      \* per slot: the request in flight
    acted,     \* history: actions sent, each with the adapter verified for it
    core,      \* application cores built so far
    events

worldVars == <<active, installed, events>>
vars == <<worldVars, catalog, registry, remote, script, plans, call, acted, core>>

Stages == {"discover", "send", "waiting", "load", "save"}

Idle == [stage |-> "idle"]

\* addDraft in flight: what is asked for, and the document it has read.
DraftCalls == [stage: {"load", "save"}, kind: {"draft"}, core: Nat, item: Items,
               template: Templates, seen: Documents \cup {None}]

\* A plan or its confirmation: the configuration read at the precheck, the adapter
\* once it is the plan's, the registration once it is sent.
PlanCalls == [stage: Stages, kind: {"plan", "confirm"}, core: Nat, item: Items, plan: Plans,
              purpose: Purposes, entry: Entries, adapter: Adapters \cup {None},
              request: Requests \cup {None}, seen: Documents \cup {None}]

Calls == {Idle} \cup DraftCalls \cup PlanCalls

Draft(t) == [status |-> "draft", template |-> t]
Registered(i) == registry[i] # None /\ registry[i].status = "registered"
AdaptersOn(m) == {[template |-> t, digest |-> installed[m][t]] : t \in Templates}

\* A document read back with more entries than the limit is refused.
Readable(d) == Cardinality({i \in Items : d[i] # None}) <= MaxEntries

-----------------------------------------------------------------------------

Init ==
    /\ active \in Targets
    /\ \E d \in Digests : installed = [m \in Targets |-> [t \in Templates |-> d]]
    /\ catalog = {}
    /\ registry = [i \in Items |-> None]
    /\ remote = [m \in Targets |-> {}]
    /\ script = [q \in Requests |-> None]
    /\ plans = [p \in Plans |-> None]
    /\ call = [s \in Slots |-> Idle]
    /\ acted = {}
    /\ core = 0 /\ events = 0

At(s, stage) == call[s].stage = stage
Proceed(s, c) == call' = [call EXCEPT ![s] = c]
Answer(s) == Proceed(s, Idle)

\* The plan of the call is deleted from the map of the call's core.
ClosePlan(s) == plans' = [plans EXCEPT ![call[s].plan].open = FALSE]

-----------------------------------------------------------------------------
(* Catalogue and drafts. *)

\* A document over the limit is refused before it is written.
AddModel(i) ==
    /\ TargetOf[i] = active
    /\ Cardinality(catalog \cup {i}) <= MaxEntries
    /\ catalog' = catalog \cup {i}
    /\ UNCHANGED <<worldVars, registry, remote, script, plans, call, acted, core>>

\* A model of the active machine gets a draft, or its draft another template.
RequestDraft(s, i, t) ==
    /\ At(s, "idle")
    /\ i \in catalog /\ TargetOf[i] = active
    /\ Proceed(s, [stage |-> "load", kind |-> "draft", core |-> core, item |-> i,
                   template |-> t, seen |-> None])
    /\ UNCHANGED <<worldVars, catalog, registry, remote, script, plans, acted, core>>

-----------------------------------------------------------------------------
(* Plans and their confirmation, up to the adapter. *)

\* currentModelServicePrecheck: the active profile, and the configuration if it is
\* one of that profile's machine.
Precheck(s, kind, p, i, purpose) ==
    /\ At(s, "idle")
    /\ Readable(registry)
    /\ registry[i] # None /\ TargetOf[i] = active
    /\ Proceed(s, [stage |-> "discover", kind |-> kind, core |-> core, item |-> i, plan |-> p,
                   purpose |-> purpose, entry |-> registry[i], adapter |-> None,
                   request |-> None, seen |-> None])

\* A plan gets a new identifier.
RequestPlan(s, p, i, purpose) ==
    /\ plans[p] = None
    /\ \A d \in Slots : ~At(d, "idle") /\ call[d].kind = "plan" => call[d].plan # p
    /\ Precheck(s, "plan", p, i, purpose)
    /\ UNCHANGED <<worldVars, catalog, registry, remote, script, plans, acted, core>>

\* The core that made the plan finds it and has not yet deleted it.
RequestConfirm(s, p) ==
    /\ plans[p] # None /\ plans[p].open /\ plans[p].core = core
    /\ Precheck(s, "confirm", p, plans[p].item, plans[p].purpose)
    /\ UNCHANGED <<worldVars, catalog, registry, remote, script, plans, acted, core>>

\* A request for a plan that is too old deletes it.
Expire(p) ==
    /\ plans[p] # None /\ plans[p].open /\ plans[p].core = core
    /\ plans' = [plans EXCEPT ![p].open = FALSE]
    /\ UNCHANGED <<worldVars, catalog, registry, remote, script, call, acted, core>>

\* Slip: a registered configuration is given whatever adapter its template has.
FoundByTemplate(e) == {a \in AdaptersOn(active) : a.template = e.template}

\* The adapter found by a session of the profile active by now: for a registered
\* configuration the very one that is recorded, for a draft that of its template.
Found(e) ==
    {a \in AdaptersOn(active) :
        IF e.status = "registered" THEN a = e.adapter ELSE a.template = e.template}

\* An action needs a registered configuration when it is planned.
MakePlan(s) ==
    /\ At(s, "discover") /\ call[s].kind = "plan"
    /\ call[s].purpose = "act" => call[s].entry.status = "registered"
    /\ \E a \in Found(call[s].entry) :
        plans' = [plans EXCEPT ![call[s].plan] =
            [open |-> TRUE, purpose |-> call[s].purpose, item |-> call[s].item,
             adapter |-> a, core |-> call[s].core]]
    /\ Answer(s)
    /\ UNCHANGED <<worldVars, catalog, registry, remote, script, acted, core>>

Bound(s) == {a \in Found(call[s].entry) : a = plans[call[s].plan].adapter}

\* The adapter found is the one of the plan.
CheckPlan(s) ==
    /\ At(s, "discover") /\ call[s].kind = "confirm"
    /\ \E a \in Bound(s) :
        Proceed(s, [call[s] EXCEPT !.stage = "send", !.adapter = a])
    /\ UNCHANGED <<worldVars, catalog, registry, remote, script, plans, acted, core>>

\* A check refuses, the machine or the disk fails: the request is answered with an
\* error and nothing is changed.  A plan stays open.
Refuse(s) ==
    /\ call[s].stage \in {"discover", "send", "load", "save"}
    /\ Answer(s)
    /\ UNCHANGED <<worldVars, catalog, registry, remote, script, plans, acted, core>>

-----------------------------------------------------------------------------
(* What is sent to the machine of the profile active by now. *)

\* modelServiceExecutor: the adapter's run.sh is sent off by name (whatever has that
\* name by then).  The request may fail although it ran; then the plan stays open.
Act(s) ==
    /\ At(s, "send") /\ call[s].purpose = "act"
    /\ acted' = acted \cup {[item |-> call[s].item, adapter |-> call[s].adapter]}
    /\ ClosePlan(s) \/ UNCHANGED plans
    /\ Answer(s)
    /\ UNCHANGED <<worldVars, catalog, registry, remote, script, core>>

\* register: a new registration identifier, and the script starts.
SendRegistration(s, q) ==
    /\ At(s, "send") /\ call[s].purpose = "register"
    /\ script[q] = None
    /\ script' = [script EXCEPT ![q] =
        [stage |-> "started", machine |-> active, seen |-> {},
         record |-> [request |-> q, item |-> call[s].item,
                     template |-> call[s].entry.template, adapter |-> call[s].adapter]]]
    /\ Proceed(s, [call[s] EXCEPT !.stage = "waiting", !.entry = None, !.request = q])
    /\ UNCHANGED <<worldVars, catalog, registry, remote, plans, acted, core>>

\* No record of the configuration is there: one that is has another identifier.
Accepts(seen, r) ==
    /\ Cardinality(seen) < MaxRecords
    /\ \A old \in seen : old.item # r.item

ScriptReads(q) ==
    /\ script[q] # None /\ script[q].stage = "started"
    /\ LET seen == remote[script[q].machine] IN
        script' = [script EXCEPT ![q] =
            IF Accepts(seen, script[q].record)
            THEN [@ EXCEPT !.stage = "read", !.seen = seen]
            ELSE [@ EXCEPT !.stage = "refused"]]
    /\ UNCHANGED <<worldVars, catalog, registry, remote, plans, call, acted, core>>

ScriptReplaces(q) ==
    /\ script[q] # None /\ script[q].stage = "read"
    /\ remote' = [remote EXCEPT ![script[q].machine] = script[q].seen \cup {script[q].record}]
    /\ script' = [script EXCEPT ![q].stage = "written", ![q].seen = {}]
    /\ UNCHANGED <<worldVars, catalog, registry, plans, call, acted, core>>

ScriptFails(q) ==
    /\ script[q] # None /\ script[q].stage \in {"started", "read"}
    /\ script' = [script EXCEPT ![q].stage = "refused", ![q].seen = {}]
    /\ UNCHANGED <<worldVars, catalog, registry, remote, plans, call, acted, core>>

\* Slip: any answer of the script counts as a registration.
AnyEnd(q) == script[q].stage \in {"written", "refused"}
Succeeded(q) == script[q].stage = "written"

\* The script's answer names the registration.
Registers(s) ==
    /\ At(s, "waiting")
    /\ Succeeded(call[s].request)
    /\ Proceed(s, [call[s] EXCEPT !.stage = "load"])
    /\ UNCHANGED <<worldVars, catalog, registry, remote, script, plans, acted, core>>

\* The script refuses, or the ssh client ends before it, at the time limit at the
\* latest; the script may go on.
Disconnect(s) ==
    /\ At(s, "waiting")
    /\ Answer(s)
    /\ UNCHANGED <<worldVars, catalog, registry, remote, script, plans, acted, core>>

-----------------------------------------------------------------------------
(* The local registry: one call of a core at a time, none across cores. *)

\* Slip: a call does not wait for the one before it.
AnyTurn(s) == At(s, "load")

HasTurn(s) ==
    /\ At(s, "load")
    /\ \A d \in Slots : At(d, "save") => call[d].core # call[s].core

IsDraft(s) == call[s].kind = "draft"

\* What the call leaves alone: a registered configuration, and a draft that is
\* already as it should be.
Settled(s, e) ==
    /\ e # None
    /\ \/ e.status = "registered"
       \/ IsDraft(s) /\ e = Draft(call[s].template)

\* Nothing to write; a registration is answered and its plan deleted.
LoadSettled(s) ==
    /\ HasTurn(s)
    /\ Readable(registry)
    /\ Settled(s, registry[call[s].item])
    /\ IF IsDraft(s) THEN UNCHANGED plans ELSE ClosePlan(s)
    /\ Answer(s)
    /\ UNCHANGED <<worldVars, catalog, registry, remote, script, acted, core>>

\* markRegistered needs the configuration, addDraft makes it.
Load(s) ==
    /\ HasTurn(s)
    /\ Readable(registry)
    /\ ~Settled(s, registry[call[s].item])
    /\ registry[call[s].item] # None \/ IsDraft(s)
    /\ Proceed(s, [call[s] EXCEPT !.stage = "save", !.seen = registry])
    /\ UNCHANGED <<worldVars, catalog, registry, remote, script, plans, acted, core>>

\* addDraft: what was read, with the draft.
SaveDraft(s) ==
    /\ At(s, "save") /\ IsDraft(s)
    /\ registry' = [call[s].seen EXCEPT ![call[s].item] = Draft(call[s].template)]
    /\ Answer(s)
    /\ UNCHANGED <<worldVars, catalog, remote, script, plans, acted, core>>

\* markRegistered: the configuration as it was read by now, with the adapter and
\* the identifier of the registration; then the plan is deleted.
SaveRegistered(s) ==
    /\ At(s, "save") /\ ~IsDraft(s)
    /\ registry' = [call[s].seen EXCEPT ![call[s].item] =
        [status |-> "registered", template |-> @.template, adapter |-> call[s].adapter,
         request |-> call[s].request]]
    /\ ClosePlan(s)
    /\ Answer(s)
    /\ UNCHANGED <<worldVars, catalog, remote, script, acted, core>>

-----------------------------------------------------------------------------
(* The world around. *)

Event == events < MaxEvents /\ events' = events + 1

\* Another verified profile is activated.
Switch(m) ==
    /\ Event
    /\ m # active
    /\ active' = m
    /\ UNCHANGED <<installed, catalog, registry, remote, script, plans, call, acted, core>>

\* Someone installs another version of an adapter on a machine.
Deploy(m, t, d) ==
    /\ Event
    /\ d # installed[m][t]
    /\ installed' = [installed EXCEPT ![m][t] = d]
    /\ UNCHANGED <<active, catalog, registry, remote, script, plans, call, acted, core>>

\* A new core: requests of the old one go on, or end with the process.
Restart ==
    /\ Event
    /\ core' = core + 1
    /\ call' \in {call, [s \in Slots |-> Idle]}
    /\ UNCHANGED <<active, installed, catalog, registry, remote, script, plans, acted>>

-----------------------------------------------------------------------------

CallStep(s) ==
    \/ MakePlan(s) \/ CheckPlan(s) \/ Refuse(s)
    \/ Act(s) \/ (\E q \in Requests : SendRegistration(s, q))
    \/ Registers(s) \/ Disconnect(s)
    \/ LoadSettled(s) \/ Load(s) \/ SaveDraft(s) \/ SaveRegistered(s)

ScriptStep(q) == ScriptReads(q) \/ ScriptReplaces(q) \/ ScriptFails(q)

Next ==
    \/ \E s \in Slots :
        \/ CallStep(s)
        \/ \E i \in Items, t \in Templates : RequestDraft(s, i, t)
        \/ \E p \in Plans, i \in Items, u \in Purposes : RequestPlan(s, p, i, u)
        \/ \E p \in Plans : RequestConfirm(s, p)
    \/ \E q \in Requests : ScriptStep(q)
    \/ \E i \in Items : AddModel(i)
    \/ \E p \in Plans : Expire(p)
    \/ \E m \in Targets : Switch(m)
    \/ \E m \in Targets, t \in Templates, d \in Digests : Deploy(m, t, d)
    \/ Restart

Spec == Init /\ [][Next]_vars

-----------------------------------------------------------------------------
(* Properties. *)

\* The variables have their types (the shape of the documents, plans and requests).
TypeOK ==
    /\ active \in Targets
    /\ installed \in [Targets -> [Templates -> Digests]]
    /\ catalog \subseteq Items
    /\ registry \in Documents
    /\ remote \in [Targets -> SUBSET Record]
    /\ script \in [Requests -> {None} \cup Script]
    /\ plans \in [Plans -> {None} \cup Plan]
    /\ call \in [Slots -> Calls]
    /\ acted \subseteq [item: Items, adapter: Adapters]
    /\ {core, events} \subseteq Nat

\* A configuration is registered locally only after the script of that very
\* registration has written the remote registry (register before markRegistered).
RegisteredWasWritten ==
    \A i \in Items : Registered(i) =>
        LET q == registry[i].request IN
        /\ script[q] # None /\ script[q].stage = "written"
        /\ script[q].record.item = i
        /\ script[q].record.adapter = registry[i].adapter

\* The adapter of a registered configuration is one that a registration plan for
\* it has named, however often adapters or profiles changed before the confirmation.
RegisteredAsPlanned ==
    \A i \in Items : Registered(i) =>
        \E p \in Plans :
            /\ plans[p] # None /\ plans[p].purpose = "register"
            /\ plans[p].item = i /\ plans[p].adapter = registry[i].adapter

\* A machine's registry lists a configuration once: repeated confirmations, scripts
\* that outlive their client and scripts that overlap never record it twice.
OneRemoteRecord ==
    \A m \in Targets : \A r, o \in remote[m] : r.item = o.item => r = o

\* The local registry can be read back.  addDraft has no limit of its own: it is
\* the catalogue's, since every configuration needs an entry there.
RegistryReadable == Readable(registry)

\* Both registries are sound: what the local one says of a registered service was
\* planned, and written on the DGX before by the same registration, each keeps to
\* one record, and the local one can be read back (model-service-registration.mjs
\* register, model-service-registry.mjs load).
RegistrationSound ==
    /\ RegisteredWasWritten /\ RegisteredAsPlanned
    /\ OneRemoteRecord
    /\ RegistryReadable

\* An action is sent only when the adapter that its configuration was registered
\* with has been found again, whatever was planned, replaced or confirmed meanwhile.
\* (Under one core: see RegisteredStays.)
ActsOnRegisteredAdapter ==
    core = 0 => \A r \in acted : Registered(r.item) /\ registry[r.item].adapter = r.adapter

\* Under one core a registered configuration never changes again, whatever drafts
\* and registrations overlap.  (A second core on the same file may undo it.)
RegisteredStays ==
    [][core = 0 => \A i \in Items : Registered(i) => registry'[i] = registry[i]]_vars

\* What the support contract says: a service that can be operated has an adapter
\* compatible with its template.
AdapterFitsTemplate ==
    \A i \in Items : Registered(i) => registry[i].adapter.template = registry[i].template
=============================================================================
