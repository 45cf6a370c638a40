------------------------- MODULE ConnectionProfiles -------------------------
(***************************************************************************)
(* The store of connection profiles (connection-profile.mjs), the routes   *)
(* that change it, and two pages that work with it: the setup wizard       *)
(* (Setup.tsx, SetupStateMachine.ts) and the model page, whose local model *)
(* search binds what it finds to the active profile (model-search.mjs).    *)
(*                                                                         *)
(* The store has no lock and no queue: a call loads the document, builds   *)
(* another from it after some awaits, and replaces the file.  Calls come   *)
(* from the wizard and from other pages and clients.  A profile stands for *)
(* its machine and for the evidence found there.                           *)
(***************************************************************************)
EXTENDS Naturals, FiniteSets

CONSTANTS
    Ids,          \* identifiers of profiles
    Calls,        \* calls of the profile routes
    Consumers,    \* requests to add a found model to the catalog
    MaxProfiles,  \* MAX_PROFILES
    None,         \* null
    MaxSearches   \* bound: model searches

ASSUME ProfileBounds == {MaxProfiles, MaxSearches} \subseteq Nat
ASSUME ProfileNone == None \notin Ids

VARIABLES
    page,      \* the page that is open: "setup" or "models"
    file,      \* the stored document
    call,      \* per call: kind, profile, stage, loaded document, who made it
    overlap,   \* history, per call: calls that held a loaded document when it saved
    later,     \* history, per call: calls that saved after it
    wizard,    \* the wizard's state
    heard,     \* calls whose answer the wizard has taken
    crossed,   \* history: two calls of the wizard were under way together, or the
               \* list of profiles failed under one
    search,    \* the model search under way
    results,   \* the result set: one found model, or None
    consumer,  \* per request to the catalog: stage and item
    catalog,   \* entries: the machine they name, where the model was found
    searches,
    switched   \* history: the active profile changed during the search

storeVars == <<file, call, overlap, later>>
wizardVars == <<wizard, heard, crossed>>
searchVars == <<search, results, consumer, catalog, searches>>
vars == <<page, storeVars, wizardVars, searchVars, switched>>

Documents == [active : Ids \cup {None}, known : SUBSET Ids, verified : SUBSET Ids]

\* What validateDocument asks for, the number of profiles aside.
Sound(d) ==
    /\ d.verified \subseteq d.known
    /\ d.active # None => d.active \in d.verified
Fits(d) == Cardinality(d.known) <= MaxProfiles

Kinds == {"create", "verify", "activate"}
Stages == {"free", "look", "probe", "load", "ask", "save", "ok", "error"}
UnderWay == Stages \ {"free", "ok", "error"}
\* Stages with a loaded document.
Holding == {"ask", "save"}

Empty == [active |-> None, known |-> {}, verified |-> {}]
NoCall == [kind |-> "create", id |-> None, stage |-> "free", copy |-> Empty, by |-> "other"]

\* initialState, and the form that is mounted with it and asks for the profiles.
Form == [list |-> {}, saving |-> FALSE]
InitialState ==
    [step |-> "connection", profile |-> None, failure |-> "none", load |-> "ready",
     form |-> Form, listing |-> TRUE, result |-> None, starting |-> FALSE]

NoSearch == [stage |-> "none", binding |-> None, target |-> None, mixed |-> FALSE]
NoConsumer == [stage |-> "idle", item |-> None]

\* Any document the program can have written.
Init ==
    /\ page \in {"setup", "models"}
    /\ file \in {d \in Documents : Sound(d) /\ Fits(d)}
    /\ call = [c \in Calls |-> NoCall]
    /\ overlap = [c \in Calls |-> {}] /\ later = [c \in Calls |-> {}]
    /\ wizard = [InitialState EXCEPT !.starting = TRUE]
    /\ heard = {} /\ crossed = FALSE
    /\ search = NoSearch /\ results = None /\ searches = 0
    /\ consumer = [k \in Consumers |-> NoConsumer]
    /\ catalog = {}
    /\ switched = FALSE

-----------------------------------------------------------------------------
(* The profile routes. *)

\* Identifiers of new profiles are new.
Fresh == Ids \ (file.known \cup {call[c].id : c \in {d \in Calls : call[d].kind = "create"}})

FirstStage(kind) == IF kind = "verify" THEN "look" ELSE "load"

\* The calls after c was made.
Made(c, kind, id, by) ==
    [call EXCEPT ![c] = [kind |-> kind, id |-> id, stage |-> FirstStage(kind),
                         copy |-> Empty, by |-> by]]

\* Another page or client makes a call about a profile it has seen.
Request(c, kind, id) ==
    /\ call[c].stage = "free"
    /\ IF kind = "create" THEN id \in Fresh ELSE id \in file.known
    /\ call' = Made(c, kind, id, "other")
    /\ UNCHANGED <<page, file, overlap, later, wizardVars, searchVars, switched>>

\* A step of c that leaves the file alone.
Goes(c, stage, copy) ==
    /\ call' = [call EXCEPT ![c].stage = stage, ![c].copy = copy]
    /\ UNCHANGED <<page, file, overlap, later, wizardVars, searchVars, switched>>

\* The verify route looks the profile up.
LookUp(c) ==
    /\ call[c].stage = "look"
    /\ Goes(c, IF call[c].id \in file.known THEN "probe" ELSE "error", Empty)

\* profileVerifier: the trusted host keys and the fixed probe.  An unreachable
\* machine or another fingerprint is an error.
Verifier(c) ==
    /\ call[c].stage = "probe"
    /\ \E stage \in {"load", "error"} : Goes(c, stage, Empty)

\* Slip: activation does not ask for verification.
MayUseAny(c, d) == call[c].kind = "create" \/ call[c].id \in d.known

\* What the store's operations ask of the document they loaded.
MayUse(c, d) ==
    \/ call[c].kind = "create"
    \/ call[c].kind = "verify" /\ call[c].id \in d.known
    \/ call[c].kind = "activate" /\ call[c].id \in d.verified

Load(c) ==
    /\ call[c].stage = "load"
    /\ IF MayUse(c, file)
       THEN Goes(c, IF call[c].kind = "activate" THEN "ask" ELSE "save", file)
       ELSE Goes(c, "error", Empty)

\* canActivate: does the ledger block the switch?
CanActivate(c) ==
    /\ call[c].stage = "ask"
    /\ \/ Goes(c, "save", call[c].copy)
       \/ Goes(c, "error", Empty)

\* Slip: a new profile starts a new document.
NewDocument(c) ==
    LET d == call[c].copy
    IN  CASE call[c].kind = "create" -> [Empty EXCEPT !.known = d.known \cup {call[c].id}]
          [] call[c].kind = "verify" -> [d EXCEPT !.verified = @ \cup {call[c].id}]
          [] OTHER -> [d EXCEPT !.active = call[c].id]

\* The document that upsert, markVerified and activate build.
Updated(c) ==
    LET d == call[c].copy
    IN  CASE call[c].kind = "create" -> [d EXCEPT !.known = @ \cup {call[c].id}]
          [] call[c].kind = "verify" -> [d EXCEPT !.verified = @ \cup {call[c].id}]
          [] OTHER -> [d EXCEPT !.active = call[c].id]

WithinLimit(c) == Fits(Updated(c))

\* save: the limit is the one thing validateDocument refuses here (StoreSound).
\* The document is written, though the removal of the temporary file may fail.
Save(c) ==
    /\ call[c].stage = "save"
    /\ WithinLimit(c)
    /\ file' = Updated(c)
    /\ \E stage \in {"ok", "error"} :
          /\ call' = [call EXCEPT ![c].stage = stage, ![c].copy = Empty]
          /\ overlap' = IF stage = "error" THEN overlap ELSE
                        [overlap EXCEPT ![c] = {d \in Calls \ {c} : call[d].stage \in Holding}]
    /\ later' = [d \in Calls |-> IF call[d].stage = "ok" THEN later[d] \cup {c} ELSE later[d]]
    /\ switched' = (switched \/ (search.stage # "none" /\ file'.active # file.active))
    /\ UNCHANGED <<page, wizardVars, searchVars>>

\* The document is over the limit, or cannot be written.
SaveFails(c) ==
    /\ call[c].stage = "save"
    /\ Goes(c, "error", Empty)

CallStep(c) ==
    LookUp(c) \/ Verifier(c) \/ Load(c) \/ CanActivate(c) \/ Save(c) \/ SaveFails(c)

-----------------------------------------------------------------------------
(* The setup wizard.  The transitions are those of the state machine; it     *)
(* takes any action in any step.                                             *)

Shown == page = "setup"
FormShown(w) == w.step = "connection" /\ w.failure # "verify"

\* The form is mounted when it comes into view and when profileLoad, its key,
\* changes; it then asks for the profiles.
Mounted(w) ==
    IF FormShown(w) /\ (~FormShown(wizard) \/ w.load # wizard.load)
    THEN [w EXCEPT !.form = Form, !.listing = TRUE] ELSE w

ToTesting(id) ==
    [wizard EXCEPT !.step = "testing", !.profile = id, !.failure = "none", !.load = "ready",
                   !.result = None]
SaveProfileFail ==
    [wizard EXCEPT !.step = "connection", !.profile = None, !.failure = "save",
                   !.load = "ready", !.form.saving = FALSE]
VerifyOk(id) ==
    [wizard EXCEPT !.step = "capabilities", !.failure = "none", !.load = "ready", !.result = id]

\* Slip: a failed verification leaves the profile chosen and goes on.
VerifyFailGoesOn ==
    [wizard EXCEPT !.step = "capabilities", !.failure = "verify", !.load = "ready"]

VerifyFail ==
    [wizard EXCEPT !.step = "connection", !.profile = None, !.failure = "verify",
                   !.load = "ready", !.result = None]

ProfilesLoadFail ==
    [wizard EXCEPT !.step = "connection", !.profile = None, !.failure = "profiles",
                   !.load = "unavailable", !.listing = FALSE, !.result = None]

\* Calls of the wizard without an answer taken.
Pending == {c \in Calls : call[c].by = "wizard" /\ call[c].stage # "free"} \ heard

\* The wizard makes a call and takes state w; an answer it has just heard is no
\* longer under way.
Calling(c, kind, id, w) ==
    /\ call[c].stage = "free"
    /\ call' = Made(c, kind, id, "wizard")
    /\ wizard' = w
    /\ crossed' = (crossed \/ Pending \ heard' # {})
    /\ UNCHANGED <<page, file, overlap, later, searchVars, switched>>

\* The effect of LiveVerifyStep.
Test(id, w) == \E c \in Calls : Calling(c, "verify", id, w)

Turns(w, crossing) ==
    /\ wizard' = Mounted(w)
    /\ crossed' = (crossed \/ crossing)
    /\ UNCHANGED <<page, storeVars, searchVars, switched>>
Turn(w) == Turns(w, FALSE)

\* getSetupProfiles answers the form that asked, or fails.
Listed ==
    /\ Shown /\ wizard.listing
    /\ Turn([wizard EXCEPT !.listing = FALSE,
                           !.form.list = IF FormShown(wizard) THEN file.known ELSE @])
    /\ UNCHANGED heard
ListFails ==
    /\ Shown /\ wizard.listing
    /\ Turns(ProfilesLoadFail, Pending # {})
    /\ UNCHANGED heard

\* A new profile is saved; the button is disabled meanwhile.
Create ==
    /\ Shown /\ FormShown(wizard) /\ wizard.load = "ready" /\ ~wizard.form.saving
    /\ UNCHANGED heard
    /\ \E c \in Calls, id \in Fresh :
          Calling(c, "create", id, [wizard EXCEPT !.form.saving = TRUE])

\* A listed profile is chosen.
Select ==
    /\ Shown /\ FormShown(wizard) /\ wizard.load = "ready"
    /\ UNCHANGED heard
    /\ \E id \in wizard.form.list : Test(id, ToTesting(id))

\* The desktop runtime's state arrives; the page is rendered with new
\* callbacks, and the effect of the step that tests runs again.
RuntimeArrives ==
    /\ Shown /\ wizard.starting
    /\ UNCHANGED heard
    /\ LET w == [wizard EXCEPT !.starting = FALSE]
       IN  IF wizard.step = "testing" THEN Test(wizard.profile, w) ELSE Turn(w)

\* An answer is taken, whatever the wizard shows by now.
Hear(c) ==
    /\ Shown /\ c \in Pending /\ call[c].stage \in {"ok", "error"}
    /\ heard' = heard \cup {c}
    /\ CASE call[c].kind = "create" /\ call[c].stage = "ok" ->
                Test(call[c].id, ToTesting(call[c].id))
         [] call[c].kind = "create" /\ call[c].stage = "error" -> Turn(SaveProfileFail)
         [] call[c].kind = "verify" /\ call[c].stage = "ok" -> Turn(VerifyOk(call[c].id))
         [] OTHER -> Turn(VerifyFail)

\* "Retry", after a failed verification or without the list of profiles.
Retry ==
    /\ Shown /\ wizard.step = "connection"
    /\ wizard.failure = "verify" \/ wizard.load = "unavailable"
    /\ Turn([InitialState EXCEPT !.listing = wizard.listing, !.starting = wizard.starting])
    /\ UNCHANGED heard

Continue ==
    /\ Shown /\ wizard.step = "capabilities" /\ wizard.result # None
    /\ Turn([wizard EXCEPT !.step = "complete", !.failure = "none"])
    /\ UNCHANGED heard

WizardStep ==
    \/ Listed \/ ListFails \/ Create \/ Select \/ RuntimeArrives \/ Retry \/ Continue
    \/ \E c \in Calls : Hear(c)

-----------------------------------------------------------------------------
(* The model page. *)

\* The active profile, if it is verified.
ActiveVerified == IF file.active \in file.verified THEN file.active ELSE None

SearchGoes(s) ==
    /\ search' = s
    /\ UNCHANGED <<page, storeVars, wizardVars, consumer, catalog>>

\* search: the profile that the results are bound to.
Search ==
    /\ page = "models" /\ search.stage = "none" /\ searches < MaxSearches
    /\ searches' = searches + 1
    /\ ActiveVerified # None
    /\ SearchGoes([NoSearch EXCEPT !.stage = "target", !.binding = ActiveVerified])
    /\ switched' = FALSE
    /\ UNCHANGED results

\* sshTargetProvider loads the profiles again.
FindTarget ==
    /\ search.stage = "target"
    /\ SearchGoes(IF ActiveVerified = None THEN NoSearch
                  ELSE [search EXCEPT !.stage = "remote", !.target = ActiveVerified])
    /\ UNCHANGED <<results, searches, switched>>

\* The listing of the target's models replaces the result set, or fails.
Listing ==
    /\ search.stage = "remote"
    /\ \/ results' = [binding |-> search.binding, found |-> search.target, mixed |-> switched,
                       id |-> searches]
       \/ UNCHANGED results
    /\ SearchGoes(NoSearch)
    /\ UNCHANGED <<searches, switched>>

ConsumerGoes(k, stage, item) ==
    /\ consumer' = [consumer EXCEPT ![k] = [stage |-> stage, item |-> item]]
    /\ UNCHANGED <<page, storeVars, wizardVars, search, searches, switched>>

\* consume: the result is looked up.
Consume(k) ==
    /\ page = "models" /\ consumer[k].stage = "idle" /\ results # None
    /\ ConsumerGoes(k, "binding", results)
    /\ UNCHANGED <<results, catalog>>

\* The entry names the machine that the result is bound to.
Entry(item) == [target |-> item.binding, found |-> item.found, mixed |-> item.mixed]

\* Is the result bound to the active profile?
BoundToActive(item) == ActiveVerified = item.binding

\* Slip: the result is bound to the profile that is active by now.
AddFoundForActive(k) ==
    /\ consumer[k].stage = "binding"
    /\ results' = IF results = consumer[k].item THEN None ELSE results
    /\ catalog' = catalog \cup {[Entry(consumer[k].item) EXCEPT !.target = ActiveVerified]}
    /\ ConsumerGoes(k, "done", None)

\* The result is deleted and its model is added, once.
AddFound(k) ==
    /\ consumer[k].stage = "binding"
    /\ BoundToActive(consumer[k].item)
    /\ results' = IF results = consumer[k].item THEN None ELSE results
    /\ catalog' = catalog \cup {Entry(consumer[k].item)}
    /\ ConsumerGoes(k, "done", None)

RefuseFound(k) ==
    /\ consumer[k].stage = "binding"
    /\ ~BoundToActive(consumer[k].item)
    /\ ConsumerGoes(k, "done", None)
    /\ UNCHANGED <<results, catalog>>

\* Results are dropped after five minutes.
Prune ==
    /\ results # None
    /\ results' = None
    /\ UNCHANGED <<page, storeVars, wizardVars, search, consumer, catalog, searches, switched>>

ModelStep ==
    \/ Search \/ FindTarget \/ Listing \/ Prune
    \/ \E k \in Consumers : Consume(k) \/ AddFound(k) \/ RefuseFound(k)

Next ==
    \/ \E c \in Calls, kind \in Kinds, id \in Ids : Request(c, kind, id)
    \/ \E c \in Calls : CallStep(c)
    \/ WizardStep
    \/ ModelStep

Spec == Init /\ [][Next]_vars

-----------------------------------------------------------------------------
(* Properties. *)

\* Types; a loaded document is held from the load to the answer only, and the
\* stored one is within the limit (connection-profile.mjs validateDocument).
TypeOK ==
    /\ page \in {"setup", "models"}
    /\ file \in Documents /\ Cardinality(file.known) <= MaxProfiles
    /\ \A c \in Calls :
         /\ call[c] \in [kind : Kinds, id : Ids \cup {None}, stage : Stages, copy : Documents,
                         by : {"wizard", "other"}]
         /\ call[c].copy # Empty => call[c].stage \in Holding
    /\ overlap \in [Calls -> SUBSET Calls] /\ later \in [Calls -> SUBSET Calls]
    /\ wizard.step \in {"connection", "testing", "capabilities", "complete"}
    /\ wizard.step = "testing" => wizard.profile # None
    /\ heard \subseteq Calls /\ crossed \in BOOLEAN /\ switched \in BOOLEAN
    /\ search.stage \in {"none", "target", "remote"} /\ searches \in 0..MaxSearches
    /\ \A k \in Consumers : consumer[k].stage \in {"idle", "binding", "done"}

\* The active profile is always a verified one, in the file and in every
\* document about to be saved, whatever the overlapping calls made of it in
\* between: validateDocument never refuses what the store's operations build
\* but for its size (connection-profile.mjs upsert, markVerified, activate).
StoreSound ==
    /\ Sound(file)
    /\ \A c \in Calls : call[c].stage = "save" => Sound(Updated(c))

\* The profile file and every document about to replace it can be read back.
StoreReadable == TypeOK /\ StoreSound

Effect(c) ==
    CASE call[c].kind = "create" -> call[c].id \in file.known
      [] call[c].kind = "verify" -> call[c].id \in file.verified
      [] OTHER -> file.active = call[c].id

\* What a call answered as done stays done, unless a call that held a loaded
\* document when it saved has saved after it, or another activation has: only
\* overlapping calls lose each other's updates (connection-profile.mjs:172-205).
UpdatesLast ==
    \A c \in Calls :
        call[c].stage = "ok" /\ ~Effect(c) =>
            \E d \in later[c] :
                d \in overlap[c] \/ (call[c].kind = "activate" /\ call[d].kind = "activate")

\* The wizard shows capabilities and "complete" only for a profile that the
\* store took as verified, and for the chosen one, unless two of its calls were
\* under way together or its list of profiles failed under one: the state machine
\* takes a late answer in any step
\* (SetupStateMachine.ts transition, Setup.tsx LiveVerifyStep).
WizardShowsTheVerified ==
    wizard.step \in {"capabilities", "complete"} =>
        /\ \E c \in heard : call[c].kind = "verify" /\ call[c].stage = "ok"
                            /\ call[c].id = wizard.result
        /\ ~crossed => wizard.profile = wizard.result

\* An entry of the catalog names the machine its model was found on, unless
\* the active profile changed while that search ran: the profile that results
\* are bound to and the target of the listing are loaded one after the other
\* (model-search.mjs:57-62).
CatalogNamesItsMachine ==
    \A e \in catalog : e.target # e.found => e.mixed

=============================================================================
